---- MODULE Spec2Model ----
(***************************************************************************)
(* A model of Polygon.js (DanIsraelMalta/Polygon): a Polygon object with   *)
(* the coordinate arrays _X and _Y, and its operations convexHull, data,   *)
(* isClockWise, simplify, intersect and radialFit on one polygon, and the  *)
(* constructors and the operations that make, combine and change Polygon   *)
(* instances (slice, append, insertPolygon, swap, intersect, union, push,  *)
(* pop, shift, remove, splice, sliceBox, sliceCircle, simplify).           *)
(*                                                                         *)
(* A JavaScript number is modelled as an exact rational <<n, d>> in lowest *)
(* terms with d > 0; d = 0 stands for the non-finite values: <<1, 0>> is   *)
(* Infinity, <<-1, 0>> is -Infinity and <<0, 0>> is NaN.  Rounding of      *)
(* IEEE doubles and the sign of zero are not modelled.                     *)
(***************************************************************************)
EXTENDS Integers, Sequences, FiniteSets, TLC

VARIABLES
    X,          \* this._X of the polygon the operations are called on
    Y,          \* this._Y
    pc,         \* where the caller is: "ready", inside convexHull's loop, or after a call
    ret,        \* what the last call returned (among instances: the number of the
                \* instance it returned, or 0)
    arg,        \* the argument of the last call (simplify's tolerance, intersect's
                \* polygon; among instances: the number of this and the arguments)
    hull,       \* convexHull: _hull, the index of the current hull vertex
    indexStart, \* convexHull: _indexStart
    xoX,        \* convexHull: xo_Xhull
    xoY,        \* convexHull: xo_Yhull
    calls,      \* simplify: the number of calls made on the polygon so far
    heap,       \* the arrays allocated so far: heap[a] is the array at address a
    polys       \* the Polygon instances: polys[p].x, polys[p].y are the addresses of _X, _Y

vars == <<X, Y, pc, ret, arg, hull, indexStart, xoX, xoY, calls, heap, polys>>

(***************************************************************************)
(* Bounds of the model.                                                    *)
(***************************************************************************)
HullMaxN == 4       \* convexHull: most vertices of an input polygon
HullMaxC == 2       \* convexHull: coordinates are drawn from 0..HullMaxC
ConvexMaxN == 4     \* convex polygons (convexHull, intersect): most vertices
ConvexMaxX == 2     \* convex polygons: x is drawn from 0..ConvexMaxX
ConvexMaxY == 1     \* convex polygons: y is drawn from 0..ConvexMaxY
DataMaxN == 3       \* data, isClockWise: most vertices of an input polygon
DataMaxC == 1       \* data, isClockWise: coordinates are drawn from 0..DataMaxC
RectMax == 10       \* data: the rectangles have sides 1..RectMax
SimplifyMaxN == 3   \* simplify: most vertices of an input polygon
SimplifyMaxC == 1   \* simplify: coordinates are drawn from 0..SimplifyMaxC
SimplifyMaxTol2 == 4 \* simplify: the tolerances are 0, 1/2, .., SimplifyMaxTol2/2
SimplifyMaxCalls == 2 \* simplify: calls in a row that the model follows
SqrtScale == 100    \* Math.sqrt of a non-square is rounded down to 1/SqrtScale
FitMaxN == 4        \* radialFit: most vertices of an input polygon
FitMaxC == 1        \* radialFit: coordinates are drawn from -FitMaxC..FitMaxC
ObjMaxOps == 2      \* instances: calls in a row that the model follows
ObjMaxPolys == 3    \* instances: most Polygon instances alive
SortMaxN == 3       \* union: most vertices that the model lets sortCW order
ObjMaxIndex == 1    \* instances: the indices the caller passes are drawn from 0..ObjMaxIndex
PresetMaxR == 3     \* regular, circle, star: the radii are drawn from 1..PresetMaxR
ConstructMaxN == 2  \* construction: most numbers in an array of the caller
ClipMaxN == 3       \* intersect with a clipper: most vertices of the subject
ClipMaxC == 2       \* intersect with a clipper: the subject's coordinates are in 1..ClipMaxC
QueryMaxN == 3      \* on, lineIntersect, closest: most vertices of the polygon
QueryMaxC == 1      \* on, lineIntersect, closest: largest coordinate of a vertex
QueryMaxP == 2      \* on, lineIntersect, closest: largest coordinate of a queried point
EditMaxN == 4       \* splice, remove: most vertices of the polygon
EditMaxIndexes == 2 \* remove: most indexes in the array
EditMaxCalls == 2   \* splice, remove: most calls
UnionMaxN == 3      \* union's removal loops: most vertices of the subject
CrossMaxN == 3      \* intersect across a clipper: most vertices of the subject
CrossMaxC == 1      \* intersect across a clipper: the subject's coordinates are 0, 2, .., 2 * CrossMaxC
ReduceMaxN == 3     \* simplify once: most vertices of the polygon
ReduceMaxC == 1     \* simplify once: coordinates are drawn from 0..ReduceMaxC
ReduceMaxTol2 == 4  \* simplify once: the tolerances are 0, 1/2, .., ReduceMaxTol2/2

(***************************************************************************)
(* Numbers.                                                                *)
(***************************************************************************)
Abs(n) == IF n < 0 THEN -n ELSE n

Sgn(n) == IF n < 0 THEN -1 ELSE IF n > 0 THEN 1 ELSE 0

RECURSIVE GCD(_, _)
GCD(a, b) == IF b = 0 THEN a ELSE GCD(b, a % b)

\* the number n/d (d = 0: Infinity, -Infinity or NaN by the sign of n)
Rat(n, d) ==
    IF d = 0 THEN <<Sgn(n), 0>>
    ELSE LET g == GCD(Abs(n), Abs(d))
             s == IF d < 0 THEN -1 ELSE 1
         IN  <<(s * n) \div g, (s * d) \div g>>

I(n) == <<n, 1>>

NaN == <<0, 0>>

IsFinite(a) == a[2] # 0

IsNaN(a) == a[2] = 0 /\ a[1] = 0

\* a + b
RAdd(a, b) ==
    IF a[2] = 0 /\ b[2] = 0 THEN (IF a[1] = b[1] THEN a ELSE NaN)
    ELSE IF a[2] = 0 THEN a
    ELSE IF b[2] = 0 THEN b
    ELSE LET g == GCD(a[2], b[2])
         IN  Rat(a[1] * (b[2] \div g) + b[1] * (a[2] \div g), (a[2] \div g) * b[2])

\* -a
RNeg(a) == <<-a[1], a[2]>>

\* a - b
RSub(a, b) == RAdd(a, RNeg(b))

\* a * b
RMul(a, b) ==
    IF a[2] = 0 \/ b[2] = 0 THEN <<Sgn(a[1]) * Sgn(b[1]), 0>>
    ELSE LET g1 == GCD(Abs(a[1]), b[2])
             g2 == GCD(Abs(b[1]), a[2])
         IN  <<(a[1] \div g1) * (b[1] \div g2), (a[2] \div g2) * (b[2] \div g1)>>

\* a / b
RDiv(a, b) ==
    IF b[2] = 0 THEN (IF b[1] = 0 \/ a[2] = 0 THEN NaN ELSE I(0))
    ELSE IF b[1] = 0 THEN <<Sgn(a[1]), 0>>
    ELSE IF a[2] = 0 THEN <<a[1] * Sgn(b[1]), 0>>
    ELSE RMul(a, Rat(b[2], b[1]))

\* a < b (false when either is NaN)
RLt(a, b) ==
    IF IsNaN(a) \/ IsNaN(b) THEN FALSE
    ELSE IF a[2] = 0 /\ b[2] = 0 THEN a[1] < b[1]
    ELSE IF a[2] = 0 THEN a[1] < 0
    ELSE IF b[2] = 0 THEN b[1] > 0
    ELSE a[1] * b[2] < b[1] * a[2]

\* a <= b (false when either is NaN)
RLe(a, b) == ~IsNaN(a) /\ ~IsNaN(b) /\ ~RLt(b, a)

(***************************************************************************)
(* Polygons the callers construct: new Polygon({type: 'point', points})    *)
(* pushes every point's coordinates on _X and _Y.                          *)
(***************************************************************************)
\* the array with the elements f[1], ..., f[n], each computed once
Arr(f) == <<>> \o f

\* the sequences of length 1..n over the set S
SeqsUpTo(S, n) == UNION {[1..k -> S] : k \in 1..n}

\* the [x, y] points with integer coordinates in 0..c
Grid(c) == (0..c) \X (0..c)

\* this._X and this._Y after construction from the point list pts
PointsX(pts) == Arr([i \in 1..Len(pts) |-> I(pts[i][1])])

PointsY(pts) == Arr([i \in 1..Len(pts) |-> I(pts[i][2])])

(***************************************************************************)
(* convexHull (gift wrapping).                                             *)
(***************************************************************************)
\* _cross with <= for <: collinear points count as a turn too
CrossOrCollinear(x1, y1, x2, y2, x3, y3) ==
    RLe(RSub(RMul(RSub(x2, x1), RSub(y3, y1)), RMul(RSub(y2, y1), RSub(x3, x1))), I(0))

\* _cross: the cross product of #1#2 and #1#3 is negative
Cross(x1, y1, x2, y2, x3, y3) ==
    RLt(RSub(RMul(RSub(x2, x1), RSub(y3, y1)), RMul(RSub(y2, y1), RSub(x3, x1))), I(0))

\* _leftBottom's test of point i against the chosen point: _leftBottom is called
\* as a plain function, so this.accuracy is undefined there and the comparison
\* Math.abs(_xi - _x) < undefined is false: ties in x are never broken by y
LeftBottomTakes(xs, ys, i, chosen) ==
    RLt(xs[i], xs[chosen]) \/ (FALSE /\ RLt(ys[i], ys[chosen]))

RECURSIVE LeftBottomFrom(_, _, _, _)
LeftBottomFrom(xs, ys, i, chosen) ==
    IF i > Len(xs) THEN chosen
    ELSE LeftBottomFrom(xs, ys, i + 1,
                        IF LeftBottomTakes(xs, ys, i, chosen) THEN i ELSE chosen)

\* _leftBottom (indices are 1-based here: JavaScript's index k is k + 1)
LeftBottom(xs, ys) == LeftBottomFrom(xs, ys, 2, 1)

\* the inner for loop of convexHull: _indexEnd after scanning i.._len
RECURSIVE IndexEndFrom(_, _, _, _, _)
IndexEndFrom(xs, ys, h, i, end) ==
    IF i > Len(xs) THEN end
    ELSE IndexEndFrom(xs, ys, h, i + 1,
                      IF h = end \/ Cross(xs[h], ys[h], xs[end], ys[end], xs[i], ys[i])
                      THEN i ELSE end)

\* _indexEnd of one pass of the do-while body, from the hull vertex h
IndexEnd(xs, ys, h) == IndexEndFrom(xs, ys, h, 2, 1)

\* the caller enters convexHull: the locals are initialised
ConvexHullEnter ==
    /\ pc = "ready"
    /\ pc' = "hull"
    /\ indexStart' = LeftBottom(X, Y)
    /\ hull' = LeftBottom(X, Y)
    /\ xoX' = <<>>
    /\ xoY' = <<>>
    /\ UNCHANGED <<X, Y, ret, arg, calls, heap, polys>>

\* one pass of the do-while body.  The loop of the code is unbounded; the model
\* stops following it once more than size() points are on the hull.
ConvexHullIter ==
    /\ pc = "hull"
    /\ Len(xoX) <= Len(X)
    /\ LET end == IndexEnd(X, Y, hull)
       IN  /\ xoX' = Append(xoX, X[hull])
           /\ xoY' = Append(xoY, Y[hull])
           /\ hull' = end
           /\ IF end # indexStart
              THEN UNCHANGED <<pc, ret>>
              ELSE /\ pc' = "hullDone"
                   /\ ret' = <<Append(xoX, X[hull]), Append(xoY, Y[hull])>>
    /\ UNCHANGED <<X, Y, arg, indexStart, calls, heap, polys>>

InitHull ==
    /\ \E pts \in SeqsUpTo(Grid(HullMaxC), HullMaxN) :
          /\ X = PointsX(pts)
          /\ Y = PointsY(pts)
    /\ pc = "ready"
    /\ ret = <<>>
    /\ arg = <<>>
    /\ hull = 0
    /\ indexStart = 0
    /\ xoX = <<>>
    /\ xoY = <<>>
    /\ calls = 0
    /\ heap = <<>>
    /\ polys = <<>>

NextHull == ConvexHullEnter \/ ConvexHullIter

SpecHull == InitHull /\ [][NextHull]_vars

(***************************************************************************)
(* Geometry the properties are stated with.  A point is <<x, y>>.          *)
(***************************************************************************)
\* the points of the polygon with the coordinate arrays xs, ys, in order
Points(xs, ys) == Arr([i \in 1..Len(xs) |-> <<xs[i], ys[i]>>])

PointSet(xs, ys) == {<<xs[i], ys[i]>> : i \in 1..Len(xs)}

\* the sign of the cross product (b - a) x (c - a): 1 when c is left of a->b
Turn(a, b, c) ==
    Sgn(RSub(RMul(RSub(b[1], a[1]), RSub(c[2], a[2])),
             RMul(RSub(b[2], a[2]), RSub(c[1], a[1])))[1])

Between(u, a, b) == (RLe(a, u) /\ RLe(u, b)) \/ (RLe(b, u) /\ RLe(u, a))

\* p lies on the closed segment a-b
OnSegment(p, a, b) ==
    Turn(a, b, p) = 0 /\ Between(p[1], a[1], b[1]) /\ Between(p[2], a[2], b[2])

\* p lies in the closed triangle a b c, which is not degenerate
InTriangle(p, a, b, c) ==
    /\ Turn(a, b, c) # 0
    /\ \/ Turn(a, b, p) >= 0 /\ Turn(b, c, p) >= 0 /\ Turn(c, a, p) >= 0
       \/ Turn(a, b, p) <= 0 /\ Turn(b, c, p) <= 0 /\ Turn(c, a, p) <= 0

\* p lies in the convex hull of the finite point set S (Caratheodory)
InConvexHull(p, S) ==
    \E a, b \in S : OnSegment(p, a, b) \/ \E c \in S : InTriangle(p, a, b, c)

\* p, a point of S, lies in the interior of the convex hull of S: no line
\* through p and another point of S has all of S on one closed side
StrictlyInside(p, S) ==
    /\ S # {p}
    /\ \A q \in S \ {p} :
          (\E s \in S : Turn(p, q, s) > 0) /\ (\E t \in S : Turn(p, q, t) < 0)

\* the successor of index i around a closed polygon of n vertices
Succ(i, n) == (i % n) + 1

\* the polygon pts is convex: its vertices are distinct, not all collinear, and
\* all lie on one closed side of every edge (vertices on an edge are allowed)
WeaklyConvex(pts) ==
    LET n == Len(pts)
        side(s) == /\ \A i, k \in 1..n : s * Turn(pts[i], pts[Succ(i, n)], pts[k]) >= 0
                   /\ \E i, k \in 1..n : Turn(pts[i], pts[Succ(i, n)], pts[k]) # 0
    IN  /\ n >= 3
        /\ \A i, j \in 1..n : i # j => pts[i] # pts[j]
        /\ (side(1) \/ side(-1))

\* the polygon pts is strictly convex: every vertex is a corner, that is every
\* vertex other than an edge's ends lies strictly on the same side of the edge
StrictlyConvex(pts) ==
    LET n == Len(pts)
        side(s) == \A i, k \in 1..n :
                      k # i /\ k # Succ(i, n) => s * Turn(pts[i], pts[Succ(i, n)], pts[k]) > 0
    IN  /\ n >= 3
        /\ \A i, j \in 1..n : i # j => pts[i] # pts[j]
        /\ (side(1) \/ side(-1))

\* q is p read from another starting point (a rotation of the closed sequence)
IsRotation(p, q) ==
    /\ Len(p) = Len(q)
    /\ \E r \in 0..(Len(p) - 1) :
          \A i \in 1..Len(p) : q[i] = p[((i - 1 + r) % Len(p)) + 1]

Reversed(p) == Arr([i \in 1..Len(p) |-> p[Len(p) + 1 - i]])

(***************************************************************************)
(* The convex polygons with integer vertices, built vertex by vertex: a    *)
(* chain is kept only while its vertices are distinct and each lies on the *)
(* closed side s of every edge so far; of the chains, those that close to  *)
(* a convex polygon are kept.                                              *)
(***************************************************************************)
IntTurn(a, b, c) == Sgn((b[1] - a[1]) * (c[2] - a[2]) - (b[2] - a[2]) * (c[1] - a[1]))

\* the chain c of k - 1 vertices can go on to the point q
Extends(c, q, s, k) ==
    /\ \A i \in 1..(k - 1) : c[i] # q
    /\ \A i \in 1..(k - 2) :
          /\ s * IntTurn(c[i], c[i + 1], q) >= 0
          /\ s * IntTurn(c[k - 1], q, c[i]) >= 0

RECURSIVE Chains(_, _, _)
Chains(G, s, k) ==
    IF k = 1 THEN {<<p>> : p \in G}
    ELSE UNION {{Append(c, q) : q \in {p \in G : Extends(c, p, s, k)}}
                : c \in Chains(G, s, k - 1)}

\* the closed chain c is a convex polygon of orientation s: every vertex lies
\* on the closed side s of every edge, and not all vertices are collinear
ClosesConvex(c, s) ==
    /\ \A i, k \in 1..Len(c) : s * IntTurn(c[i], c[Succ(i, Len(c))], c[k]) >= 0
    /\ \E i, k \in 1..Len(c) : IntTurn(c[i], c[Succ(i, Len(c))], c[k]) # 0

ConvexPolygons(G, n) ==
    UNION {{pts \in Chains(G, s, k) : ClosesConvex(pts, s)} : s \in {-1, 1}, k \in 3..n}

\* the convex polygons convexHull and intersect are called on, counter-clockwise
\* and clockwise, vertices in the middle of an edge allowed
ConvexGridPolygons == ConvexPolygons((0..ConvexMaxX) \X (0..ConvexMaxY), ConvexMaxN)

InitHullConvex ==
    /\ \E pts \in ConvexGridPolygons :
          /\ X = PointsX(pts)
          /\ Y = PointsY(pts)
    /\ pc = "ready"
    /\ ret = <<>>
    /\ arg = <<>>
    /\ hull = 0
    /\ indexStart = 0
    /\ xoX = <<>>
    /\ xoY = <<>>
    /\ calls = 0
    /\ heap = <<>>
    /\ polys = <<>>

SpecHullConvex == InitHullConvex /\ [][NextHull]_vars

(***************************************************************************)
(* Properties of convexHull.                                               *)
(***************************************************************************)
\* C2: convexHull terminates for every non-empty vertex sequence: the wrapping
\* loop is back at the starting vertex after appending at most size() points,
\* so the hull never holds more points than the polygon has vertices.
C2_HullAtMostSizePoints == Len(xoX) <= Len(X)

\* C3: what convexHull returns are the extreme points of the hull of the
\* vertices: every returned point is a vertex, no vertex lies outside the
\* convex hull of the returned points, and no returned point lies strictly
\* inside it.
C3_HullIsTheConvexHull ==
    pc = "hullDone" =>
        LET H == PointSet(ret[1], ret[2])
            V == PointSet(X, Y)
        IN  /\ H \subseteq V
            /\ \A v \in V : InConvexHull(v, H)
            /\ \A h \in H : ~StrictlyInside(h, H)

\* C4 as stated: convexHull of any convex polygon, vertices on an edge allowed,
\* returns the polygon's vertices, each once, up to starting point and
\* orientation.
C4_Original_ConvexHullKeepsVertices ==
    pc = "hullDone" /\ WeaklyConvex(Points(X, Y)) =>
        \/ IsRotation(Points(X, Y), Points(ret[1], ret[2]))
        \/ IsRotation(Reversed(Points(X, Y)), Points(ret[1], ret[2]))

\* C4 amended: convexHull of a strictly convex polygon (every vertex a corner)
\* terminates within size() passes and returns the polygon's vertices, each
\* once, as a rotation of the polygon or of the polygon reversed.
C4_StrictlyConvexHullKeepsVertices ==
    StrictlyConvex(Points(X, Y)) =>
        /\ Len(xoX) <= Len(X)
        /\ pc = "hull" => Len(xoX) < Len(X)
        /\ pc = "hullDone" =>
              \/ IsRotation(Points(X, Y), Points(ret[1], ret[2]))
              \/ IsRotation(Reversed(Points(X, Y)), Points(ret[1], ret[2]))

\* convexHull has returned for a strictly convex polygon of at least 4 vertices
\* that is listed clockwise, so the hull is the polygon reversed
C4_Witness ==
    /\ pc = "hullDone"
    /\ StrictlyConvex(Points(X, Y))
    /\ Len(X) >= 4
    /\ ~IsRotation(Points(X, Y), Points(ret[1], ret[2]))

(***************************************************************************)
(* data (area, centroid, perimeter, moments of inertia).                   *)
(***************************************************************************)
\* this._diff without the closing difference: the last element is 0
DiffNotClosed(a) ==
    IF Len(a) = 0 THEN <<NaN>>
    ELSE Arr([i \in 1..Len(a) |-> IF i < Len(a) THEN RSub(a[i + 1], a[i]) ELSE I(0)])

\* this._diff: the difference between each two consecutive elements, closed:
\* the last element is array[0] - array[length - 1], which is
\* undefined - undefined = NaN for an empty array
Diff(a) ==
    IF Len(a) = 0 THEN <<NaN>>
    ELSE Arr([i \in 1..Len(a) |->
                 IF i < Len(a) THEN RSub(a[i + 1], a[i]) ELSE RSub(a[1], a[Len(a)])])

\* _sum(xi_array.slice(0, k)): reduce from 0
RECURSIVE SumTo(_, _)
SumTo(a, k) == IF k = 0 THEN I(0) ELSE RAdd(SumTo(a, k - 1), a[k])

\* _sum
Sum(a) == SumTo(a, Len(a))

\* an element read past the end of an array is undefined, NaN in arithmetic
At(a, i) == IF i <= Len(a) THEN a[i] ELSE NaN

\* _dot2, _dot3, _dot4: reduce over the first array
Dot2(a, b) == Sum(Arr([i \in 1..Len(a) |-> RMul(a[i], At(b, i))]))

Dot3(a, b, c) == Sum(Arr([i \in 1..Len(a) |-> RMul(RMul(a[i], At(b, i)), At(c, i))]))

Dot4(a, b, c, d) ==
    Sum(Arr([i \in 1..Len(a) |-> RMul(RMul(RMul(a[i], At(b, i)), At(c, i)), At(d, i))]))

\* the largest k in lo..hi with k * k <= n
RECURSIVE ISqrtBetween(_, _, _)
ISqrtBetween(n, lo, hi) ==
    IF lo >= hi THEN lo
    ELSE LET mid == (lo + hi + 1) \div 2
         IN  IF mid * mid <= n THEN ISqrtBetween(n, mid, hi) ELSE ISqrtBetween(n, lo, mid - 1)

ISqrt(n) == ISqrtBetween(n, 0, IF n < 46340 THEN n ELSE 46340)

\* Math.sqrt: exact on the squares of rationals, and elsewhere rounded down to
\* a multiple of 1/(d * SqrtScale); NaN below zero
RSqrt(a) ==
    IF a[2] = 0 THEN (IF a[1] > 0 THEN a ELSE NaN)
    ELSE IF a[1] < 0 THEN NaN
    ELSE IF ISqrt(a[1]) * ISqrt(a[1]) = a[1] /\ ISqrt(a[2]) * ISqrt(a[2]) = a[2]
         THEN <<ISqrt(a[1]), ISqrt(a[2])>>
    ELSE Rat(ISqrt(a[1] * a[2] * SqrtScale * SqrtScale), a[2] * SqrtScale)

\* the vertex mean _xm (or _ym) of the coordinate array a
Mean(a) == RDiv(Sum(a), I(Len(a)))

\* _x (or _y) left as the coordinates relative to the origin
NotCentred(a) == a

\* _x (or _y): the coordinates relative to the vertex mean
Centred(a) == LET m == Mean(a) IN Arr([i \in 1..Len(a) |-> RSub(a[i], m)])

\* _A as first computed from _x, _y, _dx and _dy
RawAreaOf(x, y, dx, dy) == RDiv(RSub(Dot2(y, dx), Dot2(x, dy)), I(2))

\* _A as first computed: the signed area, positive for clockwise vertices
RawArea(xs, ys) ==
    RawAreaOf(Centred(xs), Centred(ys), Diff(Centred(xs)), Diff(Centred(ys)))

K(n, a) == RMul(I(n), a)

Add4(a, b, c, d) == RAdd(RAdd(RAdd(a, b), c), d)

Add6(a, b, c, d, e, f) == RAdd(RAdd(Add4(a, b, c, d), e), f)

\* _A, _Cx, _Cy, _Ixx, _Iyy, _Ixy as first computed from _x, _y, _dx and _dy:
\* the area and the moments about the vertex mean
RawMomentsOf(x, y, dx, dy) ==
    [A   |-> RawAreaOf(x, y, dx, dy),
     Cx  |-> RDiv(Add4(K(6, Dot3(x, y, dx)), K(-3, Dot3(x, x, dy)),
                       K(3, Dot3(y, dx, dx)), Dot3(dx, dx, dy)), I(12)),
     Cy  |-> RDiv(Add4(K(3, Dot3(y, y, dx)), K(-6, Dot3(x, y, dy)),
                       K(-3, Dot3(x, dy, dy)), RNeg(Dot3(dx, dy, dy))), I(12)),
     Ixx |-> RDiv(Add6(K(2, Dot4(y, y, y, dx)), K(-6, Dot4(x, y, y, dy)),
                       K(-6, Dot4(x, y, dy, dy)), K(-2, Dot4(x, dy, dy, dy)),
                       K(-2, Dot4(y, dx, dy, dy)), RNeg(Dot4(dx, dy, dy, dy))), I(12)),
     Iyy |-> RDiv(Add6(K(6, Dot4(x, x, y, dx)), K(-2, Dot4(x, x, x, dy)),
                       K(6, Dot4(x, y, dx, dx)), K(2, Dot4(y, dx, dx, dx)),
                       K(2, Dot4(x, dx, dx, dy)), Dot4(dx, dx, dx, dy)), I(12)),
     Ixy |-> RDiv(Add6(K(6, Dot4(x, y, y, dx)), K(-6, Dot4(x, x, y, dy)),
                       K(3, Dot4(y, y, dx, dx)), K(-3, Dot4(x, x, dy, dy)),
                       K(2, Dot4(y, dx, dx, dy)), K(-2, Dot4(x, dx, dy, dy))), I(24))]

\* _p = _sum(_sqrt(_add(_pow(_dx, 2), _pow(_dy, 2)))): the sum of the edge lengths
SumOfLengths(dx, dy) ==
    Sum(Arr([i \in 1..Len(dx) |->
               RSqrt(RAdd(RMul(dx[i], dx[i]), RMul(At(dy, i), At(dy, i))))]))

\* if (_A < 0): the area and the moments change sign
Canonical(m) ==
    IF RLt(m.A, I(0))
    THEN [A |-> RNeg(m.A), Cx |-> RNeg(m.Cx), Cy |-> RNeg(m.Cy),
          Ixx |-> RNeg(m.Ixx), Iyy |-> RNeg(m.Iyy), Ixy |-> RNeg(m.Ixy)]
    ELSE m

\* _xc, _yc
CentroidOffset(m) == <<RDiv(m.Cx, m.A), RDiv(m.Cy, m.A)>>

\* _Iuu, _Ivv, _Iuv from the moments m and c = <<_xc, _yc>>
Centroidal(m, c) ==
    [Iuu |-> RSub(m.Ixx, RMul(RMul(m.A, c[2]), c[2])),
     Ivv |-> RSub(m.Iyy, RMul(RMul(m.A, c[1]), c[1])),
     Iuv |-> RSub(m.Ixy, RMul(RMul(m.A, c[1]), c[2]))]

\* the returned array, from _A, the final _Cx and _Cy, _p and the centroidal
\* moments u: _Ixx = _Iuu + _A * _Cy * _Cy, _Iyy = _Ivv + _A * _Cx * _Cx and
\* _Ixy = _Iuv * _A * _Cx * _Cy
Returned(A, Cx, Cy, p, u) ==
    <<A, Cx, Cy, p,
      RAdd(u.Iuu, RMul(RMul(A, Cy), Cy)),
      RAdd(u.Ivv, RMul(RMul(A, Cx), Cx)),
      RMul(RMul(RMul(u.Iuv, A), Cx), Cy),
      u.Iuu, u.Ivv, u.Iuv>>

\* the part of data() after the sign is settled: the final _Cx is _xm + _Cx and
\* the final _Cy is _ym + _Cy, with _Cx and _Cy the first moments in m
DataOfCanonical(xm, ym, m, p) ==
    Returned(m.A, RAdd(xm, m.Cx), RAdd(ym, m.Cy), p, Centroidal(m, CentroidOffset(m)))

\* data() from _xm, _ym, _x, _y, _dx and _dy
DataOf(xm, ym, x, y, dx, dy) ==
    DataOfCanonical(xm, ym, Canonical(RawMomentsOf(x, y, dx, dy)), SumOfLengths(dx, dy))

\* data() from the coordinate arrays and the centred coordinates
DataCentred(xs, ys, x, y) == DataOf(Mean(xs), Mean(ys), x, y, Diff(x), Diff(y))

\* data(): [_A, _Cx, _Cy, _p, _Ixx, _Iyy, _Ixy, _Iuu, _Ivv, _Iuv]
Data(xs, ys) == DataCentred(xs, ys, Centred(xs), Centred(ys))

\* isClockWise(): the signed sum runs over _i = 0 .. _size - 2
RECURSIVE ClockWiseSum(_, _, _)
ClockWiseSum(xs, ys, k) ==
    IF k = 0 THEN I(0)
    ELSE RSub(RAdd(ClockWiseSum(xs, ys, k - 1), RMul(xs[k], ys[k + 1])),
              RMul(ys[k], xs[k + 1]))

IsClockWise(xs, ys) ==
    RLt(ClockWiseSum(xs, ys, IF Len(xs) = 0 THEN 0 ELSE Len(xs) - 1), I(0))

\* the caller calls data()
DataCall ==
    /\ pc = "ready"
    /\ pc' = "dataDone"
    /\ ret' = Data(X, Y)
    /\ UNCHANGED <<X, Y, arg, hull, indexStart, xoX, xoY, calls, heap, polys>>

\* the caller calls isClockWise()
IsClockWiseCall ==
    /\ pc = "ready"
    /\ pc' = "clockWiseDone"
    /\ ret' = IsClockWise(X, Y)
    /\ UNCHANGED <<X, Y, arg, hull, indexStart, xoX, xoY, calls, heap, polys>>

\* the rectangle [(0,0), (w,0), (w,h), (0,h)]
Rectangle(w, h) == <<<<0, 0>>, <<w, 0>>, <<w, h>>, <<0, h>>>>

\* the rectangle with one more vertex, [k, 0], on its bottom edge
RectangleWithEdgeVertex(w, h, k) == <<<<0, 0>>, <<k, 0>>, <<w, 0>>, <<w, h>>, <<0, h>>>>

\* the polygons data and isClockWise are called on: every vertex list on the
\* grid, the rectangles, and the rectangles with a vertex on the bottom edge
DataPolygons ==
    SeqsUpTo(Grid(DataMaxC), DataMaxN)
        \cup {Rectangle(w, h) : w, h \in 1..RectMax}
        \cup UNION {{RectangleWithEdgeVertex(w, h, k) : k \in 1..(w - 1)}
                    : w, h \in 1..RectMax}

InitData ==
    /\ \E pts \in DataPolygons :
          /\ X = PointsX(pts)
          /\ Y = PointsY(pts)
    /\ pc = "ready"
    /\ ret = <<>>
    /\ arg = <<>>
    /\ hull = 0
    /\ indexStart = 0
    /\ xoX = <<>>
    /\ xoY = <<>>
    /\ calls = 0
    /\ heap = <<>>
    /\ polys = <<>>

NextData == DataCall \/ IsClockWiseCall

SpecData == InitData /\ [][NextData]_vars

(***************************************************************************)
(* Properties of data and isClockWise.                                     *)
(***************************************************************************)
\* |a|
RAbs(a) == <<Abs(a[1]), a[2]>>

\* the shoelace term of the edge from vertex i to its successor
ShoelaceTerm(xs, ys, i) ==
    LET j == Succ(i, Len(xs))
    IN  RSub(RMul(xs[i], ys[j]), RMul(xs[j], ys[i]))

\* the shoelace sum over the first k edges; with k = Len(xs) the closing edge
\* is included and the sum is twice the area, positive counter-clockwise
RECURSIVE ShoelaceTo(_, _, _)
ShoelaceTo(xs, ys, k) ==
    IF k = 0 THEN I(0) ELSE RAdd(ShoelaceTo(xs, ys, k - 1), ShoelaceTerm(xs, ys, k))

Shoelace(xs, ys) == ShoelaceTo(xs, ys, Len(xs))

\* the first moments of area about the axes through the origin, times 6
RECURSIVE MomentXTo(_, _, _)
MomentXTo(xs, ys, k) ==
    IF k = 0 THEN I(0)
    ELSE RAdd(MomentXTo(xs, ys, k - 1),
              RMul(RAdd(xs[k], xs[Succ(k, Len(xs))]), ShoelaceTerm(xs, ys, k)))

\* the area centroid of a simple polygon: first moment over area
AreaCentroid(xs, ys) ==
    <<RDiv(MomentXTo(xs, ys, Len(xs)), K(3, Shoelace(xs, ys))),
      RDiv(MomentXTo(ys, xs, Len(xs)), K(3, Shoelace(ys, xs)))>>

\* the closed segments a-b and c-d have a point in common
SegmentsMeet(a, b, c, d) ==
    \/ Turn(a, b, c) * Turn(a, b, d) < 0 /\ Turn(c, d, a) * Turn(c, d, b) < 0
    \/ OnSegment(c, a, b) \/ OnSegment(d, a, b)
    \/ OnSegment(a, c, d) \/ OnSegment(b, c, d)

\* the closed polygon pts is simple: its vertices are distinct, two edges that
\* are not neighbours do not meet, and neighbours meet in their vertex only
IsSimple(pts) ==
    LET n == Len(pts)
        nxt(i) == pts[Succ(i, n)]
    IN  /\ n >= 3
        /\ \A i, j \in 1..n : i # j => pts[i] # pts[j]
        /\ \A i \in 1..n :
              /\ ~OnSegment(nxt(Succ(i, n)), pts[i], nxt(i))
              /\ ~OnSegment(pts[i], nxt(i), nxt(Succ(i, n)))
        /\ \A i, j \in 1..n :
              i # j /\ Succ(i, n) # j /\ Succ(j, n) # i =>
                  ~SegmentsMeet(pts[i], nxt(i), pts[j], nxt(j))

C7_CentroidIsAreaCentroid ==
    pc = "dataDone" /\ IsSimple(Points(X, Y)) /\ Shoelace(X, Y) # I(0) =>
        <<ret[2], ret[3]>> = AreaCentroid(X, Y)

\* C8: the product of inertia Ixy that data() returns is Iuv + A * Cx * Cy of
\* the Iuv, A, Cx and Cy it returns.
C8_GlobalIxyByParallelAxis ==
    pc = "dataDone" /\ Len(X) >= 3 /\ IsFinite(ret[7]) /\ IsFinite(ret[10]) =>
        ret[7] = RAdd(ret[10], RMul(RMul(ret[1], ret[2]), ret[3]))

\* C9: for the rectangle [(0,0), (w,0), (w,h), (0,h)] data() returns the area
\* w*h, the centroid (w/2, h/2), the perimeter 2*(w+h), the centroidal moments
\* Iuu = w*h^3/12, Ivv = h*w^3/12, Iuv = 0 and the global moments
\* Ixx = Iuu + area*(h/2)^2, Iyy = Ivv + area*(w/2)^2.
C9_RectangleData ==
    \A w, h \in 1..RectMax :
        pc = "dataDone" /\ X = PointsX(Rectangle(w, h)) /\ Y = PointsY(Rectangle(w, h)) =>
            /\ ret[1] = I(w * h)
            /\ ret[2] = Rat(w, 2)
            /\ ret[3] = Rat(h, 2)
            /\ ret[4] = I(2 * (w + h))
            /\ ret[8] = Rat(w * h * h * h, 12)
            /\ ret[9] = Rat(h * w * w * w, 12)
            /\ ret[10] = I(0)
            /\ ret[5] = RAdd(ret[8], RMul(ret[1], RMul(Rat(h, 2), Rat(h, 2))))
            /\ ret[6] = RAdd(ret[9], RMul(ret[1], RMul(Rat(w, 2), Rat(w, 2))))

\* data() has returned for the square of side 10
C9_Witness ==
    /\ pc = "dataDone"
    /\ X = PointsX(Rectangle(10, 10))
    /\ Y = PointsY(Rectangle(10, 10))
    /\ ret[1] = I(100)

\* C10: for a simple polygon isClockWise() returns true exactly when the raw
\* signed area of data() is positive, that is when the vertices are listed
\* clockwise over the closed boundary, the closing edge included.
C10_ClockWiseIsSignOfRawArea ==
    pc = "clockWiseDone" /\ IsSimple(Points(X, Y)) =>
        /\ ret = RLt(I(0), RawArea(X, Y))
        /\ ret = RLt(Shoelace(X, Y), I(0))

(***************************************************************************)
(* simplify (radial pre-filter, then recursive perpendicular-distance      *)
(* splitting of the open chain).                                           *)
(***************************************************************************)
\* _diff2vec
Diff2Vec(a, b) == <<RSub(a[1], b[1]), RSub(a[2], b[2])>>

\* _dot2vec
Dot2Vec(a, b) == RAdd(RMul(a[1], b[1]), RMul(a[2], b[2]))

\* _mag2vec
Mag2Vec(a) == RAdd(RMul(a[1], a[1]), RMul(a[2], a[2]))

\* _magDiff2vec
MagDiff2Vec(a, b) == Mag2Vec(Diff2Vec(a, b))

\* the radial pre-filter's keep test: vertex i, at squared distance d2 from the
\* last kept vertex, is skipped when d2 < _tol2
RadialKeeps(d2, tol2) == ~RLt(d2, tol2)

\* the loop over _i = 1 .. _size - 1 of the radial pre-filter: <<_vertices, _j>>
RECURSIVE RadialFrom(_, _, _, _, _)
RadialFrom(P, i, j, acc, tol2) ==
    IF i > Len(P) THEN <<acc, j>>
    ELSE IF RadialKeeps(MagDiff2Vec(P[i], P[j]), tol2)
         THEN RadialFrom(P, i + 1, i, Append(acc, P[i]), tol2)
         ELSE RadialFrom(P, i + 1, j, acc, tol2)

\* _vertices after the radial pre-filter when the last vertex is not put back
RadialWithoutLast(P, tol2) == RadialFrom(P, 2, 1, <<P[1]>>, tol2)[1]

\* _vertices after the radial pre-filter: the last vertex is put back when it
\* was skipped
Radial(P, tol2) ==
    LET r == RadialFrom(P, 2, 1, <<P[1]>>, tol2)
    IN  IF r[2] < Len(P) THEN Append(r[1], P[Len(P)]) ELSE r[1]

\* _dist of _reduce: the squared distance of the vertex v to the segment a-b
SegDist2(v, a, b) ==
    LET direction == Diff2Vec(b, a)
        length2 == Mag2Vec(direction)
        dot == Dot2Vec(Diff2Vec(v, a), direction)
    IN  IF RLe(dot, I(0)) THEN MagDiff2Vec(v, a)
        ELSE IF RLe(length2, dot) THEN MagDiff2Vec(v, b)
        ELSE LET proj == RDiv(dot, length2)
                 perpBase == <<RAdd(a[1], RMul(proj, direction[1])),
                               RAdd(a[2], RMul(proj, direction[2]))>>
             IN  MagDiff2Vec(v, perpBase)

\* the for loop of _reduce from index i: <<_iMax, _maxDistSqr>>
RECURSIVE MaxDistFrom(_, _, _, _, _, _)
MaxDistFrom(V, s, e, i, iMax, maxDistSqr) ==
    IF i >= e THEN <<iMax, maxDistSqr>>
    ELSE LET dist == SegDist2(V[i], V[s], V[e])
         IN  IF RLe(dist, maxDistSqr)
             THEN MaxDistFrom(V, s, e, i + 1, iMax, maxDistSqr)
             ELSE MaxDistFrom(V, s, e, i + 1, i, dist)

\* _reduce when it never splits a sub-chain
ReduceNeverSplits(maxDistSqr, tol2) == FALSE

\* _reduce splits the sub-chain at its farthest vertex when _maxDistSqr > _tol
ReduceSplits(maxDistSqr, tol2) == RLt(tol2, maxDistSqr)

\* _reduce: the indices it marks in xi_key for the sub-chain s..e
RECURSIVE Reduce(_, _, _, _)
Reduce(tol2, V, s, e) ==
    IF e <= s + 1 THEN {}
    ELSE LET m == MaxDistFrom(V, s, e, s + 1, s, I(0))
         IN  IF ReduceSplits(m[2], tol2)
             THEN {m[1]} \cup Reduce(tol2, V, s, m[1]) \cup Reduce(tol2, V, m[1], e)
             ELSE {}

\* the elements of the array a at the indices in keep, in order
RECURSIVE KeptFrom(_, _, _)
KeptFrom(a, keep, i) ==
    IF i > Len(a) THEN <<>>
    ELSE (IF i \in keep THEN <<a[i]>> ELSE <<>>) \o KeptFrom(a, keep, i + 1)

\* the coordinates number c (1 for X, 2 for Y) of the points P
Coordinates(P, c) == Arr([i \in 1..Len(P) |-> P[i][c]])

\* _key with only _key[0] marked before _reduce runs: the last vertex of the
\* chain is kept only when _reduce marks it, which it never does
KeyWithoutLast(tol2, V) == {1} \cup Reduce(tol2, V, 1, Len(V))

\* the indices marked in _key: _key[0], _key[_k - 1] and what _reduce marks
Key(tol2, V) == {1, Len(V)} \cup Reduce(tol2, V, 1, Len(V))

\* <<_X, _Y>> as simplify(tol) leaves them in a polygon with at least one vertex
Simplify(xs, ys, tol) ==
    LET tol2 == RMul(tol, tol)
        V == Radial(Points(xs, ys), tol2)
        kept == KeptFrom(V, Key(tol2, V), 1)
    IN  <<Coordinates(kept, 1), Coordinates(kept, 2)>>

\* the caller calls simplify(t); pc tells a call that repeats the tolerance of
\* the call before it from any other call.  On a polygon without vertices the
\* code throws (it reads _vertices[0][0] of undefined) after it has emptied _X
\* and _Y.
SimplifyCall ==
    /\ pc \in {"ready", "simplifyDone", "simplifyRepeated"}
    /\ calls < SimplifyMaxCalls
    /\ \E k \in 0..SimplifyMaxTol2 :
          /\ arg' = Rat(k, 2)
          /\ IF Len(X) = 0
             THEN /\ pc' = "simplifyThrew"
                  /\ UNCHANGED <<X, Y>>
             ELSE /\ pc' = IF pc # "ready" /\ arg = Rat(k, 2)
                           THEN "simplifyRepeated" ELSE "simplifyDone"
                  /\ \E S \in {Simplify(X, Y, Rat(k, 2))} : X' = S[1] /\ Y' = S[2]
    /\ calls' = calls + 1
    /\ UNCHANGED <<ret, hull, indexStart, xoX, xoY, heap, polys>>

InitSimplify ==
    /\ \E pts \in SeqsUpTo(Grid(SimplifyMaxC), SimplifyMaxN) :
          /\ X = PointsX(pts)
          /\ Y = PointsY(pts)
    /\ pc = "ready"
    /\ ret = <<>>
    /\ arg = <<>>
    /\ hull = 0
    /\ indexStart = 0
    /\ xoX = <<>>
    /\ xoY = <<>>
    /\ calls = 0
    /\ heap = <<>>
    /\ polys = <<>>

NextSimplify == SimplifyCall

SpecSimplify == InitSimplify /\ [][NextSimplify]_vars

ToSet(xs, ys) == Arr([i \in 1..Len(xs) |-> <<xs[i], At(ys, i)>>])

\* _in: the point lies strictly on the left of the line from c1 to c2
In(c1, c2, point) ==
    RLt(RMul(RSub(c2[2], c1[2]), RSub(point[1], c1[1])),
        RMul(RSub(c2[1], c1[1]), RSub(point[2], c1[2])))

\* _startPt pushed in the place of the intersection point
StartPtPushed(c1, c2, startPt, endPt) == startPt

\* _lineLineInter: the point where the line c1-c2 meets the line startPt-endPt
LineLineInter(c1, c2, startPt, endPt) ==
    LET diffClip == <<RSub(c1[1], c2[1]), RSub(c1[2], c2[2])>>
        diffPt == <<RSub(startPt[1], endPt[1]), RSub(startPt[2], endPt[2])>>
        s == RSub(RMul(c1[1], c2[2]), RMul(c1[2], c2[1]))
        t == RSub(RMul(startPt[1], endPt[2]), RMul(startPt[2], endPt[1]))
        den == RDiv(I(1), RSub(RMul(diffClip[1], diffPt[2]), RMul(diffClip[2], diffPt[1])))
    IN  <<RMul(RSub(RMul(s, diffPt[1]), RMul(t, diffClip[1])), den),
          RMul(RSub(RMul(s, diffPt[2]), RMul(t, diffClip[2])), den)>>

\* what one pass of the inner loop pushes for the edge startPt-endPt
Pushed(c1, c2, startPt, endPt) ==
    IF In(c1, c2, endPt)
    THEN (IF ~In(c1, c2, startPt) THEN <<LineLineInter(c1, c2, startPt, endPt)>> ELSE <<>>)
             \o <<endPt>>
    ELSE IF In(c1, c2, startPt) THEN <<LineLineInter(c1, c2, startPt, endPt)>>
    ELSE <<>>

\* the inner loop: xo_intersect after the vertices 1..i of temp are visited
RECURSIVE ClipByEdgeTo(_, _, _, _)
ClipByEdgeTo(temp, c1, c2, i) ==
    IF i = 0 THEN <<>>
    ELSE ClipByEdgeTo(temp, c1, c2, i - 1)
             \o Pushed(c1, c2, temp[IF i = 1 THEN Len(temp) ELSE i - 1], temp[i])

\* the outer loop: xo_intersect after the clipper's vertices 1..j are visited
RECURSIVE ClipTo(_, _, _)
ClipTo(clipped, clipper, j) ==
    IF j = 0 THEN clipped
    ELSE LET temp == ClipTo(clipped, clipper, j - 1)
         IN  ClipByEdgeTo(temp, clipper[IF j = 1 THEN Len(clipper) ELSE j - 1],
                          clipper[j], Len(temp))

\* _clip
Clip(clipped, clipper) == ClipTo(clipped, clipper, Len(clipper))

\* xo_out of intersect
IntersectPoints(xs, ys, qxs, qys) == Clip(ToSet(xs, ys), ToSet(qxs, qys))

\* new Polygon({type: 'point', points}) throws on a coordinate that is not finite
PointPolygonThrows(points) ==
    \E i \in 1..Len(points) : ~IsFinite(points[i][1]) \/ ~IsFinite(points[i][2])

\* the caller calls intersect with the polygon whose arrays are qxs and qys
IntersectCall(qxs, qys) ==
    /\ pc = "ready"
    /\ arg' = <<qxs, qys>>
    /\ \E out \in {IntersectPoints(X, Y, qxs, qys)} :
          IF PointPolygonThrows(out)
          THEN pc' = "intersectThrew" /\ UNCHANGED ret
          ELSE /\ pc' = "intersectDone"
               /\ ret' = <<Arr([i \in 1..Len(out) |-> out[i][1]]),
                           Arr([i \in 1..Len(out) |-> out[i][2]])>>
    /\ UNCHANGED <<X, Y, hull, indexStart, xoX, xoY, calls, heap, polys>>

\* the caller intersects the polygon with an identical copy of it
SelfIntersectCall == IntersectCall(X, Y)

\* the polygons intersect is called on: the convex polygons of the grid and the
\* rectangles, listed counter-clockwise and clockwise
SelfIntersectPolygons ==
    ConvexGridPolygons
        \cup {Rectangle(w, h) : w, h \in 1..RectMax}
        \cup {Reversed(Rectangle(w, h)) : w, h \in 1..RectMax}

InitSelfIntersect ==
    /\ \E pts \in SelfIntersectPolygons :
          /\ X = PointsX(pts)
          /\ Y = PointsY(pts)
    /\ pc = "ready"
    /\ ret = <<>>
    /\ arg = <<>>
    /\ hull = 0
    /\ indexStart = 0
    /\ xoX = <<>>
    /\ xoY = <<>>
    /\ calls = 0
    /\ heap = <<>>
    /\ polys = <<>>

NextSelfIntersect == SelfIntersectCall

SpecSelfIntersect == InitSelfIntersect /\ [][NextSelfIntersect]_vars

(***************************************************************************)
(* Properties of intersect.                                                *)
(***************************************************************************)
\* C1: P.intersect(Q), with P convex and Q an identical copy of P, returns a
\* polygon whose data() area is the data() area of P.
C1_SelfIntersectKeepsArea ==
    /\ pc \in {"intersectDone", "intersectThrew"}
    /\ StrictlyConvex(Points(X, Y))
    /\ arg = <<X, Y>>
    => pc = "intersectDone" /\ Data(ret[1], ret[2])[1] = Data(X, Y)[1]

(***************************************************************************)
(* radialFit('circle'): the rows [x, y, 1] and the right-hand sides        *)
(* -(x^2 + y^2) of the vertices, solved by _gaussElimination.              *)
(***************************************************************************)
\* _concat: the matrix with the array's elements pushed on its rows
Concat(A, B) == Arr([i \in 1..Len(A) |-> Append(A[i], At(B, i))])

\* _j after the column maximum loop has run from row k on: the signed _pivot
\* is compared with the absolute value of the candidate
RECURSIVE PivotRowFrom(_, _, _, _, _, _)
PivotRowFrom(AB, i, k, pivot, j, columns) ==
    IF k > columns THEN j
    ELSE IF RLt(pivot, RAbs(At(AB[k], i)))
         THEN PivotRowFrom(AB, i, k + 1, At(AB[k], i), k, columns)
    ELSE PivotRowFrom(AB, i, k + 1, pivot, j, columns)

\* _j: the row that is exchanged with row i
PivotRow(AB, i, columns) == PivotRowFrom(AB, i, i + 1, At(AB[i], i), i, columns)

\* maximum row <-> current row
SwapRows(AB, i, j) == [AB EXCEPT ![i] = AB[j], ![j] = AB[i]]

\* row j after _fac times row i is taken from it, from column i on
NullifiedRow(rowJ, rowI, i, fac) ==
    Arr([k \in 1..Len(rowJ) |->
        IF k < i THEN rowJ[k] ELSE RSub(rowJ[k], RMul(fac, At(rowI, k)))])

\* nullify rows below current one
Nullified(AB, i) ==
    Arr([j \in 1..Len(AB) |->
        IF j <= i THEN AB[j]
        ELSE NullifiedRow(AB[j], AB[i], i, RDiv(At(AB[j], i), At(AB[i], i)))])

\* _AB after the iterations i, i + 1, .. of the loop over the rows
RECURSIVE ForwardFrom(_, _, _)
ForwardFrom(AB, i, columns) ==
    IF i > Len(AB) THEN AB
    ELSE ForwardFrom(Nullified(SwapRows(AB, i, PivotRow(AB, i, columns)), i), i + 1, columns)

\* _AB after xo_out[i] = _temp is taken out of the rows above row i
BackRows(AB, i, columns, temp) ==
    Arr([j \in 1..Len(AB) |->
        IF j < i
        THEN [AB[j] EXCEPT ![columns + 1] = RSub(AB[j][columns + 1], RMul(AB[j][i], temp))]
        ELSE AB[j]])

\* xo_out after the iterations i, i - 1, .. of the bottom up loop
RECURSIVE BackFrom(_, _, _, _)
BackFrom(AB, i, columns, out) ==
    IF i < 1 THEN out
    ELSE BackFrom(BackRows(AB, i, columns, RDiv(AB[i][columns + 1], AB[i][i])),
                  i - 1, columns,
                  [out EXCEPT ![i] = RDiv(AB[i][columns + 1], AB[i][i])])

\* _gaussElimination(xi_A, xi_B)
GaussElimination(A, B) ==
    BackFrom(ForwardFrom(Concat(A, B), 1, Len(A[1])), Len(A[1]), Len(A[1]),
             Arr([k \in 1..Len(A[1]) |-> NaN]))

\* _A of _fitCircle
CircleRows(xs, ys) == Arr([i \in 1..Len(xs) |-> <<xs[i], At(ys, i), I(1)>>])

\* _B of _fitCircle
CircleRhs(xs, ys) ==
    Arr([i \in 1..Len(xs) |->
        RNeg(RAdd(RMul(xs[i], xs[i]), RMul(At(ys, i), At(ys, i))))])

\* what _fitCircle returns for the solved coefficients S
CircleOf(S) ==
    <<RDiv(RNeg(S[1]), I(2)),
      RDiv(RNeg(S[2]), I(2)),
      RSqrt(RSub(RDiv(RAdd(RMul(S[1], S[1]), RMul(S[2], S[2])), I(4)), S[3]))>>

\* _fitCircle(xi_x, xi_y)
FitCircle(xs, ys) == CircleOf(GaussElimination(CircleRows(xs, ys), CircleRhs(xs, ys)))

\* with fewer rows than columns the column maximum loop reads a row that does
\* not exist, which is a TypeError
GaussEliminationThrows(xs) == Len(xs) < 3

\* the caller calls radialFit('circle')
RadialFitCall ==
    /\ pc = "ready"
    /\ IF GaussEliminationThrows(X)
       THEN pc' = "radialFitThrew" /\ UNCHANGED ret
       ELSE pc' = "radialFitDone" /\ ret' = FitCircle(X, Y)
    /\ UNCHANGED <<X, Y, arg, hull, indexStart, xoX, xoY, calls, heap, polys>>

\* the [x, y] points with integer coordinates in -c..c
SignedGrid(c) == ((-c)..c) \X ((-c)..c)

InitRadialFit ==
    /\ \E pts \in SeqsUpTo(SignedGrid(FitMaxC), FitMaxN) :
          /\ X = PointsX(pts)
          /\ Y = PointsY(pts)
    /\ pc = "ready"
    /\ ret = <<>>
    /\ arg = <<>>
    /\ hull = 0
    /\ indexStart = 0
    /\ xoX = <<>>
    /\ xoY = <<>>
    /\ calls = 0
    /\ heap = <<>>
    /\ polys = <<>>

NextRadialFit == RadialFitCall

SpecRadialFit == InitRadialFit /\ [][NextRadialFit]_vars

(***************************************************************************)
(* Properties of radialFit.                                                *)
(***************************************************************************)
\* the determinant of the 3 x 3 matrix m
Det3(m) ==
    RAdd(RSub(RMul(m[1][1], RSub(RMul(m[2][2], m[3][3]), RMul(m[2][3], m[3][2]))),
              RMul(m[1][2], RSub(RMul(m[2][1], m[3][3]), RMul(m[2][3], m[3][1])))),
         RMul(m[1][3], RSub(RMul(m[2][1], m[3][2]), RMul(m[2][2], m[3][1]))))

\* m with column c replaced by b
ReplaceColumn(m, c, b) == Arr([i \in 1..3 |-> [m[i] EXCEPT ![c] = b[i]]])

\* the solution of m x = b by Cramer's rule
Cramer3(m, b) ==
    Arr([c \in 1..3 |-> RDiv(Det3(ReplaceColumn(m, c, b)), Det3(m))])

\* A^T A
NormalMatrix(A) ==
    Arr([r \in 1..3 |->
        Arr([c \in 1..3 |-> Sum(Arr([i \in 1..Len(A) |-> RMul(A[i][r], A[i][c])]))])])

\* A^T b
NormalRhs(A, b) ==
    Arr([r \in 1..3 |-> Sum(Arr([i \in 1..Len(A) |-> RMul(A[i][r], b[i])]))])

\* the least-squares solution of the rows A x = b
LeastSquares(A, b) == Cramer3(NormalMatrix(A), NormalRhs(A, b))

\* the rows of the vertices do not determine the three coefficients
FitIsSingular(xs, ys) == Det3(NormalMatrix(CircleRows(xs, ys))) = I(0)

\* C11: for a polygon of exactly 3 non-collinear vertices, in any order and
\* with any signs of the coordinates, radialFit('circle') returns the centre
\* (-D/2, -E/2) and the radius sqrt(D^2/4 + E^2/4 - F) of the one circle
\* x^2 + y^2 + Dx + Ey + F = 0 through the 3 vertices.
C11_FitOfThreeIsCircumcircle ==
    /\ pc = "radialFitDone"
    /\ Len(X) = 3
    /\ ~FitIsSingular(X, Y)
    => ret = CircleOf(Cramer3(CircleRows(X, Y), CircleRhs(X, Y)))

\* C12: for a polygon of more than 3 vertices radialFit('circle') returns the
\* circle of the least-squares solution over the rows of all the vertices.
C12_FitIsLeastSquares ==
    /\ pc = "radialFitDone"
    /\ Len(X) > 3
    /\ ~FitIsSingular(X, Y)
    => ret = CircleOf(LeastSquares(CircleRows(X, Y), CircleRhs(X, Y)))

\* C13: when the linear system of the vertices is singular, radialFit reports
\* a failure to the caller and returns no result holding NaN or Infinity.
C13_SingularFitIsReported ==
    /\ pc \in {"radialFitDone", "radialFitThrew"}
    /\ FitIsSingular(X, Y)
    => pc = "radialFitThrew"

(***************************************************************************)
(* Properties of data on polygons of zero area.                            *)
(***************************************************************************)
\* C14: for a polygon of zero area (1 or 2 vertices, or all the vertices
\* collinear) data() returns the area 0 and no element of the returned tuple
\* is NaN or Infinity.
C14_ZeroAreaDataIsFinite ==
    pc = "dataDone" /\ Shoelace(X, Y) = I(0) =>
        /\ ret[1] = I(0)
        /\ \A i \in 1..Len(ret) : IsFinite(ret[i])

(***************************************************************************)
(* Polygon instances and their arrays.  A Polygon owns the two arrays its  *)
(* _X and _Y point at; heap holds every array the program has allocated,   *)
(* the caller's arrays (addresses 1 and 2) included, so that two instances *)
(* that point at the same array can be told from two that hold equal       *)
(* values.  Arrays nothing points at any more stay in heap.                *)
(***************************************************************************)
\* Array.prototype.slice(start, end)
ArraySlice(a, start, end) == SubSeq(a, start + 1, IF end < Len(a) THEN end ELSE Len(a))

\* what Array.prototype.splice(start, deleteCount) leaves in the array
ArraySplice(a, start, count) ==
    SubSeq(a, 1, IF start < Len(a) THEN start ELSE Len(a)) \o SubSeq(a, start + count + 1, Len(a))

\* what splice.apply(a, [index, 0].concat(b)) leaves in the array a
ArrayInsert(a, index, b) == SubSeq(a, 1, index) \o b \o SubSeq(a, index + 1, Len(a))

\* a[i], counted from 0 as the code does (undefined, which compares and
\* computes as NaN, past the end)
At0(a, i) == At(a, i + 1)

\* the heap with the array at address a replaced by v
Write(h, a, v) == [h EXCEPT ![a] = v]

\* the heap with both arrays of the instance P replaced
Write2(h, P, xs, ys) == Write(Write(h, P.x, xs), P.y, ys)

\* this._X = xi_array without .slice(): the instance points at the array it was given
NotSliced(h, a) == [heap |-> h, at |-> a]

\* xi_array.slice(): the heap with the copy, and the address of the copy
SliceStored(h, a) == [heap |-> Append(h, h[a]), at |-> Len(h) + 1]

\* _finite
Finite(a) == \A i \in 1..Len(a) : IsFinite(a[i])

\* the instance whose _X and _Y are the stored copies sx and sy
ArrayPolygonOf(sx, sy) == [ok |-> TRUE, heap |-> sy.heap, poly |-> [x |-> sx.at, y |-> sy.at]]

\* new Polygon({type: 'array', x, y}) (or 'matrix') for the arrays at ax and ay:
\* both are tested with _finite and copied; their lengths are not compared
ArrayPolygon(h, ax, ay) ==
    IF Finite(h[ax]) /\ Finite(h[ay])
    THEN ArrayPolygonOf(SliceStored(h, ax), SliceStored(SliceStored(h, ax).heap, ay))
    ELSE [ok |-> FALSE, heap |-> h, poly |-> [x |-> 0, y |-> 0]]

\* new Polygon({type: 'point', points}): the coordinates are pushed on new arrays
PointPolygon(h, points) ==
    IF PointPolygonThrows(points)
    THEN [ok |-> FALSE, heap |-> h, poly |-> [x |-> 0, y |-> 0]]
    ELSE [ok |-> TRUE,
          heap |-> h \o <<Coordinates(points, 1), Coordinates(points, 2)>>,
          poly |-> [x |-> Len(h) + 1, y |-> Len(h) + 2]]

\* this.slice(start, end): Array.prototype.slice makes the two arrays that the
\* 'array' constructor then copies
SlicePolygon(h, P, start, end) ==
    ArrayPolygon(h \o <<ArraySlice(h[P.x], start, end), ArraySlice(h[P.y], start, end)>>,
                 Len(h) + 1, Len(h) + 2)

\* the heap after a remove that takes the vertex out of _X only
RemoveAtX(h, P, index) ==
    IF index <= Len(h[P.x]) THEN Write(h, P.x, ArraySplice(h[P.x], index, 1)) ELSE h

\* the heap after P.remove(index) with a number
RemoveAt(h, P, index) ==
    IF index <= Len(h[P.x])
    THEN Write2(h, P, ArraySplice(h[P.x], index, 1), ArraySplice(h[P.y], index, 1))
    ELSE h

\* inside(x, y) after the edges i, i + 1, .. (counted from 0) are tested, j being
\* the vertex before i
RECURSIVE InsideFrom(_, _, _, _, _, _, _)
InsideFrom(xs, ys, x, y, i, j, inside) ==
    IF i >= Len(xs) THEN inside
    ELSE InsideFrom(xs, ys, x, y, i + 1, i,
            IF /\ RLt(y, At0(ys, i)) # RLt(y, At0(ys, j))
               /\ RLt(x, RAdd(At0(xs, i),
                              RDiv(RMul(RSub(At0(xs, j), At0(xs, i)), RSub(y, At0(ys, i))),
                                   RSub(At0(ys, j), At0(ys, i)))))
            THEN ~inside ELSE inside)

\* inside(x, y) of the polygon with the arrays xs and ys
Inside(xs, ys, x, y) == InsideFrom(xs, ys, x, y, 0, Len(xs) - 1, FALSE)

\* union: the heap after the loop that removes from the instance T the vertices
\* inside the instance O has run from index i on; len is T's size before the loop
RECURSIVE TrimFrom(_, _, _, _, _)
TrimFrom(h, T, O, i, len) ==
    IF i >= len THEN h
    ELSE TrimFrom(IF Inside(h[O.x], h[O.y], At0(h[T.x], i), At0(h[T.y], i))
                  THEN RemoveAt(h, T, i) ELSE h,
                  T, O, i + 1, len)

\* the heap after P.insertPolygon(index, Q)
InsertPolygonAt(h, P, index, Q) ==
    IF index < Len(h[P.x])
    THEN Write2(h, P, ArrayInsert(h[P.x], index, h[Q.x]), ArrayInsert(h[P.y], index, h[Q.y]))
    ELSE Write2(h, P, h[P.x] \o h[Q.x], h[P.y] \o h[Q.y])

\* the orders of n elements
Orders(n) == {f \in [1..n -> 1..n] : \A i, j \in 1..n : f[i] = f[j] => i = j}

\* the orders of 0, 1, .., SortMaxN elements
OrdersUpTo == [n \in 0..SortMaxN |-> Orders(n)]

\* the heap after P.sortCW() leaves the vertices in the order f.  The order
\* follows the angles of _atan2 about the vertex mean, which are NaN for a
\* vertex above, below or at the mean; the comparator then answers NaN and the
\* order is the engine's.  sortCW is modelled by all the orders f, which
\* include the one the code leaves: it moves vertices, and neither adds, drops
\* nor changes one
SortedCW(h, P, f) ==
    Write2(h, P, Arr([i \in 1..Len(h[P.x]) |-> h[P.x][f[i]]]),
                 Arr([i \in 1..Len(h[P.x]) |-> h[P.y][f[i]]]))

\* union's _this (or _ipolygon) used without the copy that slice makes
UnionNoCopy(h, P) == [ok |-> TRUE, heap |-> h, poly |-> P]

\* union's _this = this.slice(0, this.size())
UnionCopy(h, P) == SlicePolygon(h, P, 0, Len(h[P.x]))

\* P.intersect(Q): the new instance of the clipped points
IntersectPolygon(h, P, Q) == PointPolygon(h, IntersectPoints(h[P.x], h[P.y], h[Q.x], h[Q.y]))

\* union after _this (T) and _ipolygon (O) are trimmed: _intersect (N.poly) with
\* T and O inserted
UnionCombined(N, T, O) ==
    InsertPolygonAt(InsertPolygonAt(N.heap, N.poly, Len(N.heap[T.x]), T),
                    N.poly, Len(N.heap[O.x]), O)

\* union: the second trimming loop, on _ipolygon (O) against the trimmed _this (T)
TrimSecond(h, T, O) == TrimFrom(h, O, T, 0, Len(h[O.x]))

\* union after the copies T and O are made: both trimming loops, then intersect
UnionIntersected(h, T, O) ==
    IntersectPolygon(TrimSecond(TrimFrom(h, T, O, 0, Len(h[T.x])), T, O), T, O)

\* the point lists the caller has: one vertex, a segment and a triangle
\* (counter-clockwise)
CallerPolygons ==
    {<<<<1, 1>>>>,
     <<<<0, 0>>, <<2, 2>>>>,
     <<<<0, 0>>, <<4, 0>>, <<0, 4>>>>}

\* the points [x, y] of the point list pts as numbers
NumberPoints(pts) == Points(PointsX(pts), PointsY(pts))

\* the vertices the caller pushes: a point, and one that is not finite
NewVertices == {<<I(3), I(1)>>, <<I(0), <<1, 0>>>>}

\* the boxes <<xb, yb, xu, yu>> the caller slices with
Boxes == {<<0, 0, 1, 1>>, <<1, 1, 4, 4>>}

\* the circles <<x, y, radius>> the caller slices with
Circles == {<<0, 0, 1>>, <<2, 2, 3>>}

\* the tolerances the caller simplifies with
Tolerances == {0, 2}

\* the instances there are
Instances == 1..Len(polys)

\* size()
Size(p) == Len(heap[polys[p].x])

\* the vertices of the instance p as the arrays hold them
VerticesOf(p) == <<heap[polys[p].x], heap[polys[p].y]>>

\* a call has ended with the outcome, on the instance and arguments args, and
\* has returned the instance number result (0: it returned this, a value or nothing)
Done(outcome, args, result) ==
    /\ pc' = outcome
    /\ arg' = args
    /\ ret' = result
    /\ calls' = calls + 1
    /\ UNCHANGED <<X, Y, hull, indexStart, xoX, xoY>>

\* a constructor has run with the result R: the new instance, or nothing when it threw
Constructed(R, outcome, threw, args) ==
    /\ heap' = R.heap
    /\ IF R.ok
       THEN polys' = Append(polys, R.poly) /\ Done(outcome, args, Len(polys) + 1)
       ELSE UNCHANGED polys /\ Done(threw, args, 0)

\* the pairs of arrays the caller can hand to a constructor: its own two
\* arrays, and the two that getX() and getY() of an instance return
ArraySources == {<<1, 2>>} \cup {<<polys[p].x, polys[p].y>> : p \in Instances}

\* the caller constructs new Polygon({type: 'array', x, y})
NewArrayPolygon ==
    /\ calls < ObjMaxOps
    /\ Len(polys) < ObjMaxPolys
    /\ \E a \in ArraySources :
          Constructed(ArrayPolygon(heap, a[1], a[2]), "arrayDone", "arrayThrew",
                      <<0, a[1], a[2]>>)

\* the caller constructs new Polygon({type: 'matrix', matrix: [x, y]})
NewMatrixPolygon ==
    /\ calls < ObjMaxOps
    /\ Len(polys) < ObjMaxPolys
    /\ \E a \in ArraySources :
          Constructed(ArrayPolygon(heap, a[1], a[2]), "matrixDone", "matrixThrew",
                      <<0, a[1], a[2]>>)

\* Math.sin of k quarter turns
SinQuarter(k) == I(<<0, 1, 0, -1>>[(k % 4) + 1])

\* Math.cos of k quarter turns
CosQuarter(k) == I(<<1, 0, -1, 0>>[(k % 4) + 1])

\* radius * Math.sin(angle) (or Math.cos) for the sine s of the angle; with
\* points = 0 the angle is 0 * Infinity, which is NaN
Radial0(points, radius, s) == IF points = 0 THEN NaN ELSE RMul(I(Abs(radius)), s)

\* new Polygon({type: 'regular', radius, points}) (or 'circle'): the loop runs
\* for _i = 0, 1, .., points, and _angle is 4 / points quarter turns
RegularPolygon(h, points, radius) ==
    [ok |-> TRUE,
     heap |-> h \o <<Arr([k \in 1..(points + 1) |->
                         Radial0(points, radius,
                                 SinQuarter((k - 1) * (IF points = 0 THEN 0 ELSE 4 \div points)))]),
                     Arr([k \in 1..(points + 1) |->
                         Radial0(points, radius,
                                 CosQuarter((k - 1) * (IF points = 0 THEN 0 ELSE 4 \div points)))])>>,
     poly |-> [x |-> Len(h) + 1, y |-> Len(h) + 2]]

\* the quarter turns of the star's vertex k (from 1): the outer vertex of the
\* pass _i = (k - 1) \div 2 is at _i * _angle and its inner vertex _delta further
StarQuarters(points, k) ==
    IF points = 0 THEN 0
    ELSE ((k - 1) \div 2) * (4 \div points) + (IF k % 2 = 0 THEN 2 \div points ELSE 0)

\* new Polygon({type: 'star', inner, outer, points}): the loop runs for
\* _i = 0, 1, .., points and pushes an outer and an inner vertex in each pass
StarPolygon(h, points, inner, outer) ==
    [ok |-> TRUE,
     heap |-> h \o <<Arr([k \in 1..(2 * (points + 1)) |->
                         Radial0(points, IF k % 2 = 0 THEN inner ELSE outer,
                                 SinQuarter(StarQuarters(points, k)))]),
                     Arr([k \in 1..(2 * (points + 1)) |->
                         Radial0(points, IF k % 2 = 0 THEN inner ELSE outer,
                                 CosQuarter(StarQuarters(points, k)))])>>,
     poly |-> [x |-> Len(h) + 1, y |-> Len(h) + 2]]

\* the numbers of points whose regular polygon has its vertices at whole
\* quarter turns, and 0
RegularCounts == {0, 1, 2, 4}

\* the numbers of points whose star has its vertices at whole quarter turns, and 0
StarCounts == {0, 1, 2}

\* the caller constructs new Polygon({type: 'regular', radius, points})
NewRegularPolygon ==
    /\ calls < ObjMaxOps
    /\ Len(polys) < ObjMaxPolys
    /\ \E points \in RegularCounts, radius \in 1..PresetMaxR :
          Constructed(RegularPolygon(heap, points, radius), "regularDone", "regularThrew",
                      <<0, points, radius>>)

\* the caller constructs new Polygon({type: 'circle', radius, points})
NewCirclePolygon ==
    /\ calls < ObjMaxOps
    /\ Len(polys) < ObjMaxPolys
    /\ \E points \in RegularCounts, radius \in 1..PresetMaxR :
          Constructed(RegularPolygon(heap, points, radius), "circleDone", "circleThrew",
                      <<0, points, radius>>)

\* the caller constructs new Polygon({type: 'star', inner, outer, points})
NewStarPolygon ==
    /\ calls < ObjMaxOps
    /\ Len(polys) < ObjMaxPolys
    /\ \E points \in StarCounts, inner \in 1..PresetMaxR, outer \in 1..PresetMaxR :
          Constructed(StarPolygon(heap, points, inner, outer), "starDone", "starThrew",
                      <<0, points, inner, outer>>)

\* the caller constructs new Polygon({type: 'point', points}) with points from S
NewPointPolygon(S) ==
    /\ calls < ObjMaxOps
    /\ Len(polys) < ObjMaxPolys
    /\ \E points \in S :
          Constructed(PointPolygon(heap, points), "pointDone", "pointThrew", <<0>>)

\* p.slice(start, end)
SliceOf(p) ==
    /\ calls < ObjMaxOps
    /\ Len(polys) < ObjMaxPolys
    /\ \E start, end \in 0..ObjMaxIndex :
          Constructed(SlicePolygon(heap, polys[p], start, end),
                      "sliceDone", "sliceThrew", <<p, start, end>>)

\* p.append(q)
AppendOf(p, q) ==
    /\ calls < ObjMaxOps
    /\ heap' = Write2(heap, polys[p], heap[polys[p].x] \o heap[polys[q].x],
                                      heap[polys[p].y] \o heap[polys[q].y])
    /\ UNCHANGED polys
    /\ Done("appendDone", <<p, q>>, 0)

\* p.insertPolygon(index, q)
InsertPolygonOf(p, q) ==
    /\ calls < ObjMaxOps
    /\ \E index \in 0..ObjMaxIndex :
          /\ heap' = InsertPolygonAt(heap, polys[p], index, polys[q])
          /\ Done("insertPolygonDone", <<p, q, index>>, 0)
    /\ UNCHANGED polys

\* p.swap(): _y is a copy of _Y, the new _Y a copy of _X, the new _X a copy of _y
SwapOf(p) ==
    /\ calls < ObjMaxOps
    /\ heap' = heap \o <<heap[polys[p].y], heap[polys[p].x], heap[polys[p].y]>>
    /\ polys' = [polys EXCEPT ![p] = [x |-> Len(heap) + 3, y |-> Len(heap) + 2]]
    /\ Done("swapDone", <<p>>, 0)

\* p.intersect(q)
IntersectOf(p, q) ==
    /\ calls < ObjMaxOps
    /\ Len(polys) < ObjMaxPolys
    /\ Constructed(IntersectPolygon(heap, polys[p], polys[q]),
                   "intersectDone", "intersectThrew", <<p, q>>)

\* union from _intersect (N) on: the two insertPolygon calls, sortCW, and the
\* new instance that copies _intersect's arrays
UnionSorted(N, T, O, p, q) ==
    \E C \in {UnionCombined(N, T, O)} :
        /\ Len(C[N.poly.x]) <= SortMaxN
        /\ \E f \in OrdersUpTo[Len(C[N.poly.x])] :
              Constructed(ArrayPolygon(SortedCW(C, N.poly, f), N.poly.x, N.poly.y),
                          "unionDone", "unionThrew", <<p, q>>)

\* union from the copies _this (T) and _ipolygon (O) on
UnionTrimmed(T, O, p, q) ==
    IF ~T.ok \/ ~O.ok
    THEN Constructed(O, "unionDone", "unionThrew", <<p, q>>)
    ELSE \E N \in {UnionIntersected(O.heap, T.poly, O.poly)} :
            IF N.ok
            THEN UnionSorted(N, T.poly, O.poly, p, q)
            ELSE Constructed(N, "unionDone", "unionThrew", <<p, q>>)

\* p.union(q)
UnionOf(p, q) ==
    /\ calls < ObjMaxOps
    /\ Len(polys) < ObjMaxPolys
    /\ \E T \in {UnionCopy(heap, polys[p])} :
          \E O \in {IF T.ok THEN UnionCopy(T.heap, polys[q]) ELSE T} :
              UnionTrimmed(T, O, p, q)

\* p.push(x, y)
PushOf(p) ==
    /\ calls < ObjMaxOps
    /\ \E v \in NewVertices :
          IF IsFinite(v[1]) /\ IsFinite(v[2])
          THEN /\ heap' = Write2(heap, polys[p], Append(heap[polys[p].x], v[1]),
                                                 Append(heap[polys[p].y], v[2]))
               /\ Done("pushDone", <<p>>, 0)
          ELSE UNCHANGED heap /\ Done("pushThrew", <<p>>, 0)
    /\ UNCHANGED polys

\* p.pop()
PopOf(p) ==
    /\ calls < ObjMaxOps
    /\ heap' = Write2(heap, polys[p], SubSeq(heap[polys[p].x], 1, Len(heap[polys[p].x]) - 1),
                                      SubSeq(heap[polys[p].y], 1, Len(heap[polys[p].y]) - 1))
    /\ UNCHANGED polys
    /\ Done("popDone", <<p>>, 0)

\* p.shift()
ShiftOf(p) ==
    /\ calls < ObjMaxOps
    /\ heap' = Write2(heap, polys[p], SubSeq(heap[polys[p].x], 2, Len(heap[polys[p].x])),
                                      SubSeq(heap[polys[p].y], 2, Len(heap[polys[p].y])))
    /\ UNCHANGED polys
    /\ Done("shiftDone", <<p>>, 0)

\* p.remove(index) with a number
RemoveOf(p) ==
    /\ calls < ObjMaxOps
    /\ \E index \in 0..ObjMaxIndex :
          /\ heap' = RemoveAt(heap, polys[p], index)
          /\ Done("removeDone", <<p, index>>, 0)
    /\ UNCHANGED polys

\* p.splice(start, end): both arrays are spliced with (start, end)
SpliceOf(p) ==
    /\ calls < ObjMaxOps
    /\ \E start, end \in 0..ObjMaxIndex :
          /\ heap' = Write2(heap, polys[p], ArraySplice(heap[polys[p].x], start, end),
                                            ArraySplice(heap[polys[p].y], start, end))
          /\ Done("spliceDone", <<p, start, end>>, 0)
    /\ UNCHANGED polys

\* the array a without the elements whose index is in the set gone
Without(a, gone) == KeptFrom(a, (1..Len(a)) \ gone, 1)

\* sliceBox: the indices of the vertices within the box <<xb, yb, xu, yu>>
InBox(xs, ys, b) ==
    {i \in 1..Len(xs) : /\ RLe(I(b[1]), xs[i]) /\ RLe(xs[i], I(b[3]))
                        /\ RLe(I(b[2]), At(ys, i)) /\ RLe(At(ys, i), I(b[4]))}

\* p.sliceBox(xb, yb, xu, yu)
SliceBoxOf(p) ==
    /\ calls < ObjMaxOps
    /\ \E b \in Boxes :
          \E gone \in {InBox(heap[polys[p].x], heap[polys[p].y], b)} :
              /\ heap' = Write2(heap, polys[p], Without(heap[polys[p].x], gone),
                                                Without(heap[polys[p].y], gone))
              /\ Done("sliceBoxDone", <<p>>, 0)
    /\ UNCHANGED polys

\* sliceCircle: the indices of the vertices within the circle c = <<x, y, radius>>
InCircle(xs, ys, c) ==
    {i \in 1..Len(xs) :
        RLe(RAdd(RMul(RSub(xs[i], I(c[1])), RSub(xs[i], I(c[1]))),
                 RMul(RSub(At(ys, i), I(c[2])), RSub(At(ys, i), I(c[2])))),
            I(c[3] * c[3]))}

\* p.sliceCircle(x, y, radius)
SliceCircleOf(p) ==
    /\ calls < ObjMaxOps
    /\ \E c \in Circles :
          \E gone \in {InCircle(heap[polys[p].x], heap[polys[p].y], c)} :
              /\ heap' = Write2(heap, polys[p], Without(heap[polys[p].x], gone),
                                                Without(heap[polys[p].y], gone))
              /\ Done("sliceCircleDone", <<p>>, 0)
    /\ UNCHANGED polys

\* p.simplify(t): _X and _Y are new arrays; without vertices the call throws
\* after it has assigned them
SimplifyOf(p) ==
    /\ calls < ObjMaxOps
    /\ \E t \in Tolerances :
          IF Size(p) = 0
          THEN /\ heap' = heap \o <<<<>>, <<>>>>
               /\ Done("simplifyThrew", <<p>>, 0)
          ELSE /\ heap' = heap \o Simplify(heap[polys[p].x], heap[polys[p].y], I(t))
               /\ Done("simplifyDone", <<p>>, 0)
    /\ polys' = [polys EXCEPT ![p] = [x |-> Len(heap) + 1, y |-> Len(heap) + 2]]

\* the caller's arrays are at the addresses 1 and 2, and one Polygon of type
\* 'array' is constructed from them
InitObjects ==
    /\ \E pts \in CallerPolygons :
          \E R \in {ArrayPolygon(<<PointsX(pts), PointsY(pts)>>, 1, 2)} :
              heap = R.heap /\ polys = <<R.poly>>
    /\ pc = "ready"
    /\ ret = 0
    /\ arg = <<>>
    /\ X = <<>>
    /\ Y = <<>>
    /\ hull = 0
    /\ indexStart = 0
    /\ xoX = <<>>
    /\ xoY = <<>>
    /\ calls = 0

NextObjects ==
    \/ NewArrayPolygon
    \/ NewMatrixPolygon
    \/ NewPointPolygon({NumberPoints(pts) : pts \in CallerPolygons})
    \/ \E p \in Instances : SliceOf(p)
    \/ \E p, q \in Instances : AppendOf(p, q)
    \/ \E p, q \in Instances : InsertPolygonOf(p, q)
    \/ \E p \in Instances : SwapOf(p)
    \/ \E p, q \in Instances : IntersectOf(p, q)
    \/ \E p, q \in Instances : UnionOf(p, q)
    \/ \E p \in Instances : PushOf(p)
    \/ \E p \in Instances : PopOf(p)
    \/ \E p \in Instances : ShiftOf(p)
    \/ \E p \in Instances : RemoveOf(p)
    \/ \E p \in Instances : SpliceOf(p)
    \/ \E p \in Instances : SliceBoxOf(p)
    \/ \E p \in Instances : SliceCircleOf(p)
    \/ \E p \in Instances : SimplifyOf(p)

SpecObjects == InitObjects /\ [][NextObjects]_vars

(***************************************************************************)
(* Properties of the instances and their arrays.                           *)
(***************************************************************************)
\* the arrays of the instance p
StorageOf(p) == {polys[p].x, polys[p].y}

\* no array is the _X or _Y of two instances, or both of one
NoSharedStorage ==
    /\ \A p \in Instances : polys[p].x # polys[p].y
    /\ \A p, q \in Instances : p # q => StorageOf(p) \cap StorageOf(q) = {}

\* C15: a.intersect(b) and a.union(b) leave the vertex sequences of a and b
\* (of every instance there is) unchanged, and what they return is a new
\* instance whose arrays are no array that existed before the call.
C15_CombiningLeavesOperands ==
    [][pc' \in {"intersectDone", "intersectThrew", "unionDone", "unionThrew"} =>
        /\ \A p \in Instances : polys'[p] = polys[p] /\ VerticesOf(p)' = VerticesOf(p)
        /\ pc' \in {"intersectDone", "unionDone"} =>
              /\ Len(polys') = Len(polys) + 1
              /\ ret' = Len(polys')
              /\ polys'[ret'].x \notin 1..Len(heap)
              /\ polys'[ret'].y \notin 1..Len(heap)
              /\ polys'[ret'].x # polys'[ret'].y]_vars

\* a.union(b) has returned for two different instances, b with an area, and a
\* vertex was trimmed from one of the working copies
C15_Witness ==
    /\ pc = "unionDone"
    /\ arg[1] # arg[2]
    /\ Size(arg[2]) >= 3
    /\ VerticesOf(arg[1]) # VerticesOf(arg[2])
    /\ Size(ret) < Size(arg[1]) + Size(arg[2])

\* C16: no two instances share an array after any sequence of the operations
\* that build a polygon from another, and a call on one instance never changes
\* the vertices of another instance.
C16_NoSharedStorage ==
    [][/\ NoSharedStorage'
       /\ \A q \in Instances : q # arg'[1] => VerticesOf(q)' = VerticesOf(q)]_vars

\* a second instance was built from the first, and a call then changed the
\* vertices of one of the two
C16_Witness ==
    /\ Len(polys) = 2
    /\ calls = 2
    /\ pc \in {"pushDone", "popDone", "removeDone", "appendDone", "swapDone"}
    /\ VerticesOf(1) # VerticesOf(2)

\* C17: every instance holds at least one vertex, after construction and after
\* any sequence of operations, the instances that slice, intersect and union
\* return included.
C17_NeverEmpty == \A p \in Instances : Size(p) >= 1

(***************************************************************************)
(* Construction.                                                           *)
(***************************************************************************)
\* the numbers the caller's arrays hold: 0, 1 and Infinity
CallerNumbers == {I(0), I(1), <<1, 0>>}

\* the arrays the caller has: up to ConstructMaxN numbers
CallerArrays == {<<>>} \cup SeqsUpTo(CallerNumbers, ConstructMaxN)

\* the point lists the caller has: its polygons, and two with a coordinate
\* that is not finite
CallerPointLists ==
    {NumberPoints(pts) : pts \in CallerPolygons}
        \cup {<<<<I(0), I(0)>>, <<<<1, 0>>, I(0)>>>>, <<<<I(0), NaN>>>>}

\* the caller has two arrays, at the addresses 1 and 2, and has constructed
\* no Polygon yet
InitConstruct ==
    /\ \E xs, ys \in CallerArrays : heap = <<xs, ys>>
    /\ polys = <<>>
    /\ pc = "ready"
    /\ ret = 0
    /\ arg = <<>>
    /\ X = <<>>
    /\ Y = <<>>
    /\ hull = 0
    /\ indexStart = 0
    /\ xoX = <<>>
    /\ xoY = <<>>
    /\ calls = 0

NextConstruct ==
    \/ NewArrayPolygon
    \/ NewMatrixPolygon
    \/ NewPointPolygon(CallerPointLists)
    \/ NewRegularPolygon
    \/ NewCirclePolygon
    \/ NewStarPolygon

SpecConstruct == InitConstruct /\ [][NextConstruct]_vars

(***************************************************************************)
(* Properties of construction.                                             *)
(***************************************************************************)
\* C18: constructing a Polygon of type 'array' or 'matrix' from X and Y arrays
\* of different lengths, or of type 'array', 'matrix' or 'point' from a
\* coordinate that is not finite, throws and yields no polygon: a polygon
\* that was constructed came from arrays of one length and finite coordinates.
C18_ConstructionRejectsIllFormed ==
    /\ pc \in {"arrayDone", "matrixDone"} =>
          /\ Len(heap[arg[2]]) = Len(heap[arg[3]])
          /\ Finite(heap[arg[2]])
          /\ Finite(heap[arg[3]])
    /\ pc = "pointDone" =>
          /\ Finite(heap[polys[ret].x])
          /\ Finite(heap[polys[ret].y])

\* C19: a polygon constructed with type 'regular', 'circle' or 'star' and
\* points: N holds exactly N vertices, and its last vertex does not repeat
\* its first vertex.
C19_PresetHoldsNVertices ==
    pc \in {"regularDone", "circleDone", "starDone"} =>
        /\ Size(ret) = arg[2]
        /\ Size(ret) >= 2 =>
              <<heap[polys[ret].x][Size(ret)], heap[polys[ret].y][Size(ret)]>>
                  # <<heap[polys[ret].x][1], heap[polys[ret].y][1]>>

(***************************************************************************)
(* intersect of a subject polygon with a convex clipper around it.         *)
(***************************************************************************)
\* the square [(-r,0), (0,-r), (r,0), (0,r)] standing on a corner, counter-clockwise
Diamond(r) == <<<<-r, 0>>, <<0, -r>>, <<r, 0>>, <<0, r>>>>

\* the clippers around the points with coordinates in 1..c: a square and a
\* square standing on a corner, each listed counter-clockwise and clockwise
ClipperPolygons(c) ==
    {Rectangle(c + 1, c + 1), Reversed(Rectangle(c + 1, c + 1)),
     Diamond(c + 2), Reversed(Diamond(c + 2))}

\* the caller intersects the polygon with one of the clippers
ClipCall ==
    \E clipper \in ClipperPolygons(ClipMaxC) :
        IntersectCall(PointsX(clipper), PointsY(clipper))

InitClip ==
    /\ \E pts \in SeqsUpTo((1..ClipMaxC) \X (1..ClipMaxC), ClipMaxN) :
          /\ X = PointsX(pts)
          /\ Y = PointsY(pts)
    /\ pc = "ready"
    /\ ret = <<>>
    /\ arg = <<>>
    /\ hull = 0
    /\ indexStart = 0
    /\ xoX = <<>>
    /\ xoY = <<>>
    /\ calls = 0
    /\ heap = <<>>
    /\ polys = <<>>

NextClip == ClipCall

SpecClip == InitClip /\ [][NextClip]_vars

(***************************************************************************)
(* Properties of intersect with a clipper around the subject.              *)
(***************************************************************************)
\* the point p lies strictly inside the convex polygon pts: strictly on one
\* and the same side of every edge
InsideConvex(p, pts) ==
    \/ \A i \in 1..Len(pts) : Turn(pts[i], pts[Succ(i, Len(pts))], p) > 0
    \/ \A i \in 1..Len(pts) : Turn(pts[i], pts[Succ(i, Len(pts))], p) < 0

\* C20: for every convex clipper, listed clockwise or counter-clockwise, and
\* every subject whose vertices all lie strictly inside the clipper,
\* subject.intersect(clipper) returns the subject's vertices in the same order.
C20_ClipperAroundSubjectKeepsIt ==
    /\ pc \in {"intersectDone", "intersectThrew"}
    /\ StrictlyConvex(Points(arg[1], arg[2]))
    /\ \A i \in 1..Len(X) : InsideConvex(<<X[i], Y[i]>>, Points(arg[1], arg[2]))
    => pc = "intersectDone" /\ ret = <<X, Y>>

(***************************************************************************)
(* The queries on, lineIntersect and closest.  The file is not in strict   *)
(* mode: in a function that is called plainly, f(..), and in the callback  *)
(* of Array.prototype.map, this is the global object and not the Polygon,  *)
(* so this._equal and this._safePythag are undefined there and calling     *)
(* them throws a TypeError.                                                *)
(***************************************************************************)
\* what a call gave: it threw, or it returned the value
Threw == [threw |-> TRUE, value |-> FALSE]

Returned1(v) == [threw |-> FALSE, value |-> v]

\* on's _pointOnLine(px, py, lx1, ly1, lx2, ly2): _crossTerm is computed, then
\* _xInclude calls this._equal(xi_lx1, xi_px) with the global object as this
PointOnLine(px, py, lx1, ly1, lx2, ly2) == Threw

\* on(x, y) from the pass _i of its loop on: the loop returns true at the first
\* edge with _pointOnLine true; after it the closing test is made with
\* this._X[_i], this._Y[_i], _i being where the loop stopped
RECURSIVE OnFrom(_, _, _, _, _)
OnFrom(xs, ys, x, y, i) ==
    IF i < Len(xs)
    THEN IF PointOnLine(x, y, At0(xs, i - 1), At0(ys, i - 1), At0(xs, i), At0(ys, i)).threw
         THEN Threw
         ELSE IF PointOnLine(x, y, At0(xs, i - 1), At0(ys, i - 1), At0(xs, i), At0(ys, i)).value
              THEN Returned1(TRUE)
              ELSE OnFrom(xs, ys, x, y, i + 1)
    ELSE PointOnLine(x, y, At0(xs, i), At0(ys, i), At0(xs, 0), At0(ys, 0))

\* on(x, y)
On(xs, ys, x, y) == OnFrom(xs, ys, x, y, 1)

\* lineIntersect's _lineLineInter for the values _s1x, _s1y, _s2x, _s2y, _den
LineLineInterOf(x1l1, y1l1, x1l2, y1l2, s1x, s1y, s2x, s2y, den) ==
    [s |-> RMul(RAdd(RMul(RNeg(s1y), RSub(x1l1, x1l2)), RMul(s1x, RSub(y1l1, y1l2))), den),
     t |-> RMul(RSub(RMul(s2x, RSub(y1l1, y1l2)), RMul(s2y, RSub(x1l1, x1l2))), den),
     s1x |-> s1x, s1y |-> s1y]

\* lineIntersect's _lineLineInter from _s and _t on: {FLAG, X, Y}
LineLineInterFlag(x1l1, y1l1, st) ==
    IF RLe(I(0), st.s) /\ RLe(st.s, I(1)) /\ RLe(I(0), st.t) /\ RLe(st.t, I(1))
    THEN [FLAG |-> TRUE, X |-> RAdd(x1l1, RMul(st.t, st.s1x)),
                         Y |-> RAdd(y1l1, RMul(st.t, st.s1y))]
    ELSE [FLAG |-> FALSE, X |-> <<>>, Y |-> <<>>]

\* lineIntersect's _lineLineInter(x1_l1, y1_l1, x2_l1, y2_l1, x1_l2, y1_l2, x2_l2, y2_l2):
\* _s2x is xi_x2_l2 - xi_x1_l1, and _den is 1 / (-_s2x * _s1y + _s1x * _s2y)
LineLineInterSegments(x1l1, y1l1, x2l1, y2l1, x1l2, y1l2, x2l2, y2l2) ==
    LineLineInterFlag(x1l1, y1l1,
        LineLineInterOf(x1l1, y1l1, x1l2, y1l2,
            RSub(x2l1, x1l1), RSub(y2l1, y1l1), RSub(x2l2, x1l1), RSub(y2l2, y1l2),
            RDiv(I(1), RAdd(RMul(RNeg(RSub(x2l2, x1l1)), RSub(y2l1, y1l1)),
                            RMul(RSub(x2l1, x1l1), RSub(y2l2, y1l2))))))

\* lineIntersect: {FLAG, X, Y} with the result t of one _lineLineInter taken in
LineIntersectWith(out, t) ==
    IF t.FLAG
    THEN [FLAG |-> TRUE, X |-> Append(out.X, t.X), Y |-> Append(out.Y, t.Y)]
    ELSE out

\* lineIntersect from the pass _i of its loop on, then the closing edge from
\* the vertex _i the loop stopped at to vertex 0
RECURSIVE LineIntersectFrom(_, _, _, _, _)
LineIntersectFrom(xs, ys, q, i, out) ==
    IF i < Len(xs) - 1
    THEN LineIntersectFrom(xs, ys, q, i + 1,
            LineIntersectWith(out,
                LineLineInterSegments(q[1], q[2], q[3], q[4],
                    At0(xs, i), At0(ys, i), At0(xs, i + 1), At0(ys, i + 1))))
    ELSE LineIntersectWith(out,
            LineLineInterSegments(q[1], q[2], q[3], q[4],
                At0(xs, i), At0(ys, i), At0(xs, 0), At0(ys, 0)))

\* lineIntersect(x1, y1, x2, y2) for q = <<x1, y1, x2, y2>>
LineIntersect(xs, ys, q) ==
    LineIntersectFrom(xs, ys, q, 0, [FLAG |-> FALSE, X |-> <<>>, Y |-> <<>>])

\* this._distance2(xi_array1, xi_array2): the callback of map calls
\* this._safePythag with the global object as this, once per element
Distance2(a1, a2) == IF Len(a1) = 0 THEN Returned1(<<>>) ELSE Threw

\* closest(x, y): _dist.indexOf(_minDist), which is -1 for the empty _dist
Closest(xs, ys, x, y) ==
    IF Distance2(Arr([i \in 1..Len(xs) |-> RSub(xs[i], x)]),
                 Arr([i \in 1..Len(ys) |-> RSub(ys[i], y)])).threw
    THEN Threw
    ELSE Returned1(-1)

\* a query has ended
Queried(outcome, args, result) ==
    /\ pc = "ready"
    /\ pc' = outcome
    /\ arg' = args
    /\ ret' = result
    /\ calls' = calls + 1
    /\ UNCHANGED <<X, Y, hull, indexStart, xoX, xoY, heap, polys>>

\* the caller asks on(x, y)
OnCall ==
    /\ pc = "ready"
    /\ \E x, y \in 0..QueryMaxP :
        \E r \in {On(X, Y, I(x), I(y))} :
            Queried(IF r.threw THEN "onThrew" ELSE "onDone", <<I(x), I(y)>>, r.value)

\* the caller asks lineIntersect(x1, y1, x2, y2)
LineIntersectCall ==
    /\ pc = "ready"
    /\ \E x1, y1, x2, y2 \in 0..QueryMaxP :
        \E r \in {LineIntersect(X, Y, <<I(x1), I(y1), I(x2), I(y2)>>)} :
            Queried("lineIntersectDone", <<I(x1), I(y1), I(x2), I(y2)>>, r)

\* the caller asks closest(x, y)
ClosestCall ==
    /\ pc = "ready"
    /\ \E x, y \in 0..QueryMaxP :
        \E r \in {Closest(X, Y, I(x), I(y))} :
            Queried(IF r.threw THEN "closestThrew" ELSE "closestDone", <<I(x), I(y)>>, r.value)

InitQuery ==
    /\ \E pts \in {<<>>} \cup SeqsUpTo(Grid(QueryMaxC), QueryMaxN) :
          /\ X = PointsX(pts)
          /\ Y = PointsY(pts)
    /\ pc = "ready"
    /\ ret = <<>>
    /\ arg = <<>>
    /\ hull = 0
    /\ indexStart = 0
    /\ xoX = <<>>
    /\ xoY = <<>>
    /\ calls = 0
    /\ heap = <<>>
    /\ polys = <<>>

NextOn == OnCall

SpecOn == InitQuery /\ [][NextOn]_vars

NextLineIntersect == LineIntersectCall

SpecLineIntersect == InitQuery /\ [][NextLineIntersect]_vars

NextClosest == ClosestCall

SpecClosest == InitQuery /\ [][NextClosest]_vars

(***************************************************************************)
(* Properties of the queries.                                              *)
(***************************************************************************)
\* the edges of the closed polygon as pairs of points, the closing edge included
EdgesOf(xs, ys) ==
    {<<<<xs[i], ys[i]>>, <<xs[Succ(i, Len(xs))], ys[Succ(i, Len(xs))]>>>> : i \in 1..Len(xs)}

\* the segments a-b and c-d are not parallel and have a point in common
CrossEachOther(a, b, c, d) ==
    /\ RSub(RMul(RSub(b[1], a[1]), RSub(d[2], c[2])),
            RMul(RSub(b[2], a[2]), RSub(d[1], c[1]))) # I(0)
    /\ SegmentsMeet(a, b, c, d)

\* C21: on(x, y) returns normally, and true exactly when the point lies on an
\* edge of the polygon, the closing edge included: collinear with it and within
\* its bounding interval on both axes.
C21_OnIsOnAnEdge ==
    pc \in {"onDone", "onThrew"} =>
        /\ pc = "onDone"
        /\ ret = (\E e \in EdgesOf(X, Y) : OnSegment(arg, e[1], e[2]))

\* C22: lineIntersect returns FLAG true exactly when the segment crosses an
\* edge of the polygon (closing edge included) that is not parallel to it, and
\* every point it returns lies on the segment and on an edge of the polygon.
C22_LineIntersectFindsCrossings ==
    pc = "lineIntersectDone" =>
        /\ ret.FLAG = (\E e \in EdgesOf(X, Y) :
                          CrossEachOther(<<arg[1], arg[2]>>, <<arg[3], arg[4]>>, e[1], e[2]))
        /\ \A k \in 1..Len(ret.X) :
              /\ OnSegment(<<ret.X[k], ret.Y[k]>>, <<arg[1], arg[2]>>, <<arg[3], arg[4]>>)
              /\ \E e \in EdgesOf(X, Y) : OnSegment(<<ret.X[k], ret.Y[k]>>, e[1], e[2])

\* C23: closest(x, y) on a polygon with vertices returns normally the lowest
\* index of a vertex whose distance to (x, y) is the least.
C23_ClosestIsNearestVertex ==
    pc \in {"closestDone", "closestThrew"} /\ Len(X) >= 1 =>
        /\ pc = "closestDone"
        /\ ret \in 0..(Len(X) - 1)
        /\ \A j \in 1..Len(X) :
              LET d2(i) == RAdd(RMul(RSub(X[i], arg[1]), RSub(X[i], arg[1])),
                                RMul(RSub(Y[i], arg[2]), RSub(Y[i], arg[2])))
              IN  /\ RLe(d2(ret + 1), d2(j))
                  /\ j < ret + 1 => RLt(d2(ret + 1), d2(j))

(***************************************************************************)
(* splice(start, end) and remove(indexes) on one polygon.                  *)
(***************************************************************************)
\* the heap after P.splice(start, end): both arrays are spliced with the
\* arguments (xi_start, xi_end), the second being splice's deleteCount
SplicedAt(h, P, start, end) ==
    Write2(h, P, ArraySplice(h[P.x], start, end), ArraySplice(h[P.y], start, end))

\* the heap after P.remove(indexes) with an array has removed indexes[i],
\* indexes[i + 1], .. one after the other, each from the arrays as they then are
RECURSIVE RemoveFrom(_, _, _, _)
RemoveFrom(h, P, indexes, i) ==
    IF i > Len(indexes) THEN h
    ELSE RemoveFrom(RemoveAt(h, P, indexes[i]), P, indexes, i + 1)

\* the heap after P.remove(indexes) with an array: xi_index.length || 0 is 0 for
\* the empty array, which is then taken as the number [] >>> 0 = 0
RemoveIndexes(h, P, indexes) ==
    IF Len(indexes) = 0 THEN RemoveAt(h, P, 0) ELSE RemoveFrom(h, P, indexes, 1)

\* the sequences of up to n distinct elements of the set S
DistinctSeqs(S, n) ==
    {<<>>} \cup {s \in SeqsUpTo(S, n) : \A i, j \in 1..Len(s) : s[i] = s[j] => i = j}

\* the caller calls p.splice(start, end) with 0 <= start <= end <= size()
SpliceCall(p) ==
    /\ calls < EditMaxCalls
    /\ \E end \in 0..Size(p) :
          \E start \in 0..end :
              /\ heap' = SplicedAt(heap, polys[p], start, end)
              /\ Done("spliceDone", <<start, end>>, 0)
    /\ UNCHANGED polys

\* the caller calls p.remove(indexes) with an array of distinct valid indexes
RemoveCall(p) ==
    /\ calls < EditMaxCalls
    /\ \E indexes \in DistinctSeqs(0..(Size(p) - 1), EditMaxIndexes) :
          /\ heap' = RemoveIndexes(heap, polys[p], indexes)
          /\ Done("removeDone", indexes, 0)
    /\ UNCHANGED polys

\* one polygon of type 'point' with 1 to EditMaxN vertices, all different:
\* vertex k (from 0) is (k, 2k + 1)
InitEdit ==
    /\ \E n \in 1..EditMaxN :
          heap = <<Arr([k \in 1..n |-> I(k - 1)]), Arr([k \in 1..n |-> I(2 * k - 1)])>>
    /\ polys = <<[x |-> 1, y |-> 2]>>
    /\ pc = "ready"
    /\ ret = 0
    /\ arg = <<>>
    /\ X = <<>>
    /\ Y = <<>>
    /\ hull = 0
    /\ indexStart = 0
    /\ xoX = <<>>
    /\ xoY = <<>>
    /\ calls = 0

NextEdit ==
    \/ SpliceCall(1)
    \/ RemoveCall(1)

SpecEdit == InitEdit /\ [][NextEdit]_vars

(***************************************************************************)
(* Properties of splice and remove.                                        *)
(***************************************************************************)
\* the vertices v = <<xs, ys>> without those whose index (from 0) is in gone
VerticesWithout(v, gone) ==
    <<Without(v[1], {i + 1 : i \in gone}), Without(v[2], {i + 1 : i \in gone})>>

\* C24: splice(start, end) with 0 <= start <= end <= size() removes the
\* vertices from index start until index end (end itself taken or left) and no
\* vertex past index end; the other vertices stay, in their order, and X and Y
\* are cut alike.
C24_SpliceCutsStartToEnd ==
    [][pc' = "spliceDone" =>
          \/ VerticesOf(1)' = VerticesWithout(VerticesOf(1), arg'[1]..(arg'[2] - 1))
          \/ VerticesOf(1)' = VerticesWithout(VerticesOf(1), arg'[1]..arg'[2])]_vars

\* C25: remove(indexes) with an array of distinct valid indexes removes exactly
\* the vertices that were at those indexes before the call, in whatever order
\* the indexes are given; the other vertices stay, in their order.
C25_RemoveTakesTheIndexed ==
    [][pc' = "removeDone" =>
          VerticesOf(1)' = VerticesWithout(VerticesOf(1), {arg'[i] : i \in 1..Len(arg')})]_vars

(***************************************************************************)
(* union, seen after its two removal loops: the copies _this and _ipolygon *)
(* are the last two instances while the call is at "unionTrimmed".         *)
(***************************************************************************)
\* union from the copy _this (T) on: the copy _ipolygon, then the two loops
UnionLoops(T, Q) ==
    \E O \in {UnionCopy(T.heap, Q)} :
        /\ heap' = TrimSecond(TrimFrom(O.heap, T.poly, O.poly, 0, Len(O.heap[T.poly.x])),
                              T.poly, O.poly)
        /\ polys' = polys \o <<T.poly, O.poly>>

\* subject.union(clipper) up to the end of its removal loops
UnionEnter(p, q) ==
    /\ pc = "ready"
    /\ UnionLoops(UnionCopy(heap, polys[p]), polys[q])
    /\ pc' = "unionTrimmed"
    /\ arg' = <<p, q>>
    /\ UNCHANGED <<X, Y, ret, hull, indexStart, xoX, xoY, calls>>

\* subject.union(clipper) from the end of its removal loops on
UnionFinish ==
    /\ pc = "unionTrimmed"
    /\ \E N \in {IntersectPolygon(heap, polys[Len(polys) - 1], polys[Len(polys)])} :
          IF N.ok
          THEN UnionSorted(N, polys[Len(polys) - 1], polys[Len(polys)], arg[1], arg[2])
          ELSE Constructed(N, "unionDone", "unionThrew", arg)

\* the vertices the subject is made of: three inside the clipper, one outside
\* it, and three around it
UnionPoints == {<<1, 1>>, <<2, 1>>, <<1, 2>>, <<5, 5>>, <<-1, -1>>, <<9, -1>>, <<-1, 9>>}

\* the clippers: a triangle, counter-clockwise and clockwise
UnionClippers ==
    {<<<<0, 0>>, <<4, 0>>, <<0, 4>>>>, <<<<0, 4>>, <<4, 0>>, <<0, 0>>>>}

\* the subject (instance 1) and the clipper (instance 2), of type 'point'
InitUnion ==
    /\ \E subject \in SeqsUpTo(UnionPoints, UnionMaxN), clipper \in UnionClippers :
          heap = <<PointsX(subject), PointsY(subject), PointsX(clipper), PointsY(clipper)>>
    /\ polys = <<[x |-> 1, y |-> 2], [x |-> 3, y |-> 4]>>
    /\ pc = "ready"
    /\ ret = 0
    /\ arg = <<>>
    /\ X = <<>>
    /\ Y = <<>>
    /\ hull = 0
    /\ indexStart = 0
    /\ xoX = <<>>
    /\ xoY = <<>>
    /\ calls = 0

NextUnion ==
    \/ UnionEnter(1, 2)
    \/ UnionFinish

SpecUnion == InitUnion /\ [][NextUnion]_vars

(***************************************************************************)
(* Properties of union's removal loops.                                    *)
(***************************************************************************)
\* no vertex of the instance t is inside the instance o
NoVertexInside(t, o) ==
    \A i \in 1..Size(t) :
        ~Inside(heap[polys[o].x], heap[polys[o].y], heap[polys[t].x][i], At(heap[polys[t].y], i))

\* C26: in subject.union(clipper) the trimmed copy of subject holds no vertex
\* for which clipper.inside is true, and the trimmed copy of clipper holds no
\* vertex that is inside the subject as it was given.
C26_UnionTrimsInsideVertices ==
    pc = "unionTrimmed" =>
        /\ NoVertexInside(Len(polys) - 1, arg[2])
        /\ NoVertexInside(Len(polys), arg[1])

(***************************************************************************)
(* intersect of a subject polygon with a convex clipper that it crosses.   *)
(***************************************************************************)
\* the clippers, convex and listed counter-clockwise: a triangle, a square
\* and a square standing on a corner, each with the point (0, 0) inside
CrossingClippers ==
    {<<<<-1, -1>>, <<3, -1>>, <<-1, 3>>>>,
     <<<<-1, -1>>, <<1, -1>>, <<1, 1>>, <<-1, 1>>>>,
     <<<<1, 0>>, <<0, 1>>, <<-1, 0>>, <<0, -1>>>>}

\* the points the subject is made of: the even coordinates up to 2c
CrossingGrid(c) == {<<2 * x, 2 * y>> : x, y \in 0..c}

\* the caller intersects the polygon with one of the clippers
CrossCall ==
    \E clipper \in CrossingClippers :
        IntersectCall(PointsX(clipper), PointsY(clipper))

InitCross ==
    /\ \E pts \in SeqsUpTo(CrossingGrid(CrossMaxC), CrossMaxN) :
          /\ X = PointsX(pts)
          /\ Y = PointsY(pts)
    /\ pc = "ready"
    /\ ret = <<>>
    /\ arg = <<>>
    /\ hull = 0
    /\ indexStart = 0
    /\ xoX = <<>>
    /\ xoY = <<>>
    /\ calls = 0
    /\ heap = <<>>
    /\ polys = <<>>

NextCross == CrossCall

SpecCross == InitCross /\ [][NextCross]_vars

(***************************************************************************)
(* Properties of intersect with a clipper the subject crosses.             *)
(***************************************************************************)
\* the index before i around a closed list of n points
Pred(i, n) == IF i = 1 THEN n ELSE i - 1

\* the point v lies on a segment between two consecutive points of the closed list
OnListSegment(v, list) ==
    \E i \in 1..Len(list) : OnSegment(v, list[Pred(i, Len(list))], list[i])

\* the point v lies on the line of the clipper's edge that ends in its vertex j
\* and on a segment of the list that this edge clips
CutByEdge(v, subject, clipper, j) ==
    /\ Turn(clipper[Pred(j, Len(clipper))], clipper[j], v) = 0
    /\ OnListSegment(v, ClipTo(subject, clipper, j - 1))

\* C27: for a convex clipper listed counter-clockwise, every vertex of
\* subject.intersect(clipper) lies on or to the left of every clipper edge, and
\* is a vertex of subject or a point on the line of a clipper edge that lies on
\* a segment between two consecutive vertices of the list that edge clips.
C27_ClippedStaysInClipper ==
    /\ pc = "intersectDone"
    /\ StrictlyConvex(Points(arg[1], arg[2]))
    /\ RLt(I(0), Shoelace(arg[1], arg[2]))
    => \A k \in 1..Len(ret[1]) :
          /\ \A j \in 1..Len(arg[1]) :
                Turn(<<arg[1][Pred(j, Len(arg[1]))], arg[2][Pred(j, Len(arg[1]))]>>,
                     <<arg[1][j], arg[2][j]>>, <<ret[1][k], ret[2][k]>>) >= 0
          /\ \/ <<ret[1][k], ret[2][k]>> \in PointSet(X, Y)
             \/ \E j \in 1..Len(arg[1]) :
                   CutByEdge(<<ret[1][k], ret[2][k]>>, ToSet(X, Y), ToSet(arg[1], arg[2]), j)

\* intersect has returned a polygon with an area that holds a vertex of the
\* subject and a point that is none: the subject crosses the clipper
C27_Witness ==
    /\ pc = "intersectDone"
    /\ StrictlyConvex(Points(arg[1], arg[2]))
    /\ RLt(I(0), Shoelace(arg[1], arg[2]))
    /\ Len(ret[1]) >= 3
    /\ Shoelace(ret[1], ret[2]) # I(0)
    /\ \E k \in 1..Len(ret[1]) : <<ret[1][k], ret[2][k]>> \in PointSet(X, Y)
    /\ \E k \in 1..Len(ret[1]) : <<ret[1][k], ret[2][k]>> \notin PointSet(X, Y)

(***************************************************************************)
(* simplify on an instance: the arrays the polygon was constructed with    *)
(* stay at the addresses 1 and 2 while _X and _Y become new arrays.        *)
(***************************************************************************)
\* the caller calls simplify(t) on the instance p, once
SimplifyOnceCall(p) ==
    /\ pc = "ready"
    /\ \E k \in 0..ReduceMaxTol2 :
          /\ arg' = Rat(k, 2)
          /\ heap' = heap \o Simplify(heap[polys[p].x], heap[polys[p].y], Rat(k, 2))
    /\ polys' = [polys EXCEPT ![p] = [x |-> Len(heap) + 1, y |-> Len(heap) + 2]]
    /\ pc' = "simplifyDone"
    /\ calls' = calls + 1
    /\ UNCHANGED <<X, Y, ret, hull, indexStart, xoX, xoY>>

\* one polygon of type 'point' with 1 to ReduceMaxN vertices
InitReduce ==
    /\ \E pts \in SeqsUpTo(Grid(ReduceMaxC), ReduceMaxN) :
          heap = <<PointsX(pts), PointsY(pts)>>
    /\ polys = <<[x |-> 1, y |-> 2]>>
    /\ pc = "ready"
    /\ ret = 0
    /\ arg = <<>>
    /\ X = <<>>
    /\ Y = <<>>
    /\ hull = 0
    /\ indexStart = 0
    /\ xoX = <<>>
    /\ xoY = <<>>
    /\ calls = 0

NextReduce == SimplifyOnceCall(1)

SpecReduce == InitReduce /\ [][NextReduce]_vars

(***************************************************************************)
(* Properties of simplify's result against the polygon it was called on.   *)
(***************************************************************************)
\* the sequence s is the sequence t with some elements left out: s from its
\* element i on is found, in order, in t from its element j on
RECURSIVE IsSubsequenceFrom(_, _, _, _)
IsSubsequenceFrom(s, t, i, j) ==
    IF i > Len(s) THEN TRUE
    ELSE IF j > Len(t) THEN FALSE
    ELSE IF s[i] = t[j] THEN IsSubsequenceFrom(s, t, i + 1, j + 1)
    ELSE IsSubsequenceFrom(s, t, i, j + 1)

\* the squared distance of the point v to the closed segment a-b
PointSegmentDist2(v, a, b) ==
    IF RLe(Dot2Vec(Diff2Vec(v, a), Diff2Vec(b, a)), I(0)) THEN Mag2Vec(Diff2Vec(v, a))
    ELSE IF RLe(Dot2Vec(Diff2Vec(v, b), Diff2Vec(a, b)), I(0)) THEN Mag2Vec(Diff2Vec(v, b))
    ELSE RDiv(RMul(RSub(RMul(RSub(b[1], a[1]), RSub(v[2], a[2])),
                        RMul(RSub(b[2], a[2]), RSub(v[1], a[1]))),
                   RSub(RMul(RSub(b[1], a[1]), RSub(v[2], a[2])),
                        RMul(RSub(b[2], a[2]), RSub(v[1], a[1])))),
              Mag2Vec(Diff2Vec(b, a)))

\* the largest element of the set S of numbers
MaxOf(S) == CHOOSE m \in S : \A n \in S : n <= m

\* the least element of the set S of numbers
MinOf(S) == CHOOSE m \in S : \A n \in S : m <= n

\* in the chain V with the retained indices kept and the squared tolerance tol2,
\* every vertex that was dropped is within the tolerance of the segment between
\* the nearest retained vertices before and after it
DroppedAreNear(V, kept, tol2) ==
    \A i \in (1..Len(V)) \ kept :
        RLe(PointSegmentDist2(V[i], V[MaxOf({a \in kept : a < i})], V[MinOf({b \in kept : b > i})]),
            tol2)

\* every interior vertex that was retained is farther than the tolerance from
\* the chord of a sub-chain between two retained vertices around it
RetainedAreFar(V, kept, tol2) ==
    \A i \in kept \ {1, Len(V)} :
        \E s \in {a \in kept : a < i}, e \in {b \in kept : b > i} :
            RLt(tol2, PointSegmentDist2(V[i], V[s], V[e]))

\* C28: for a polygon with vertices and a tolerance t >= 0, after simplify(t)
\* the vertex sequence is a subsequence of the one before (same order, no new
\* points), and its first and last vertices are the first and last of before.
C28_SimplifyKeepsEndsAndOrder ==
    pc = "simplifyDone" =>
        /\ IsSubsequenceFrom(Points(VerticesOf(1)[1], VerticesOf(1)[2]),
                             Points(heap[1], heap[2]), 1, 1)
        /\ Size(1) >= 1
        /\ <<VerticesOf(1)[1][1], VerticesOf(1)[2][1]>> = <<heap[1][1], heap[2][1]>>
        /\ <<VerticesOf(1)[1][Size(1)], VerticesOf(1)[2][Size(1)]>>
               = <<heap[1][Len(heap[1])], heap[2][Len(heap[2])]>>

\* simplify(t) with t > 0 has dropped a vertex of a polygon whose first and
\* last vertex differ, and two are left
C28_Witness ==
    /\ pc = "simplifyDone"
    /\ RLt(I(0), arg)
    /\ Size(1) < Len(heap[1])
    /\ Size(1) >= 2
    /\ <<heap[1][1], heap[2][1]>> # <<heap[1][Len(heap[1])], heap[2][Len(heap[2])]>>

OrZero(v) == IF IsNaN(v) \/ v = I(0) THEN I(0) ELSE v

\* a[index] = v for index <= a.length
ArraySet(a, index, v) ==
    IF index < Len(a) THEN [a EXCEPT ![index + 1] = v] ELSE Append(a, v)

\* the numbers the caller passes for a coordinate or a distance
MoveNumbers == {I(1), NaN, <<1, 0>>}

\* the angles the caller rotates by, in quarter turns
RotateTurns == {0, 1, 2}

\* p.unshift(x, y)
UnshiftOf(p) ==
    /\ calls < ObjMaxOps
    /\ \E v \in NewVertices :
          IF IsFinite(v[1]) /\ IsFinite(v[2])
          THEN /\ heap' = Write2(heap, polys[p], <<v[1]>> \o heap[polys[p].x],
                                                 <<v[2]>> \o heap[polys[p].y])
               /\ Done("unshiftDone", <<p>>, 0)
          ELSE UNCHANGED heap /\ Done("unshiftThrew", <<p>>, 0)
    /\ UNCHANGED polys

\* p.change(index, x, y)
ChangeOf(p) ==
    /\ calls < ObjMaxOps
    /\ \E index \in 0..ObjMaxIndex, v \in NewVertices :
          IF IsFinite(v[1]) /\ IsFinite(v[2])
          THEN /\ heap' = IF index <= Len(heap[polys[p].x])
                          THEN Write2(heap, polys[p], ArraySet(heap[polys[p].x], index, v[1]),
                                                      ArraySet(heap[polys[p].y], index, v[2]))
                          ELSE heap
               /\ Done("changeDone", <<p, index>>, 0)
          ELSE UNCHANGED heap /\ Done("changeThrew", <<p, index>>, 0)
    /\ UNCHANGED polys

\* p.insertVertex(index, x, y)
InsertVertexOf(p) ==
    /\ calls < ObjMaxOps
    /\ \E index \in 0..ObjMaxIndex, v \in NewVertices :
          IF IsFinite(v[1]) /\ IsFinite(v[2])
          THEN /\ heap' = IF index < Len(heap[polys[p].x])
                          THEN Write2(heap, polys[p],
                                      ArrayInsert(heap[polys[p].x], index, <<v[1]>>),
                                      ArrayInsert(heap[polys[p].y], index, <<v[2]>>))
                          ELSE Write2(heap, polys[p], Append(heap[polys[p].x], v[1]),
                                                      Append(heap[polys[p].y], v[2]))
               /\ Done("insertVertexDone", <<p, index>>, 0)
          ELSE UNCHANGED heap /\ Done("insertVertexThrew", <<p, index>>, 0)
    /\ UNCHANGED polys

\* p.reverse()
ReverseOf(p) ==
    /\ calls < ObjMaxOps
    /\ heap' = Write2(heap, polys[p], Reversed(heap[polys[p].x]), Reversed(heap[polys[p].y]))
    /\ UNCHANGED polys
    /\ Done("reverseDone", <<p>>, 0)

\* p.sortCW(), for the polygons whose orders the model lists
SortCWOf(p) ==
    /\ calls < ObjMaxOps
    /\ Size(p) <= SortMaxN
    /\ \E f \in OrdersUpTo[Size(p)] : heap' = SortedCW(heap, polys[p], f)
    /\ UNCHANGED polys
    /\ Done("sortCWDone", <<p>>, 0)

\* the arrays rotate assigns to _X and _Y for the origin (x, y) and k quarter
\* turns, whose cosine and sine _equal makes 1, 0 or stay -1
Rotated(xs, ys, x, y, k) ==
    <<Arr([i \in 1..Len(xs) |->
              RAdd(x, RSub(RMul(RSub(xs[i], OrZero(x)), CosQuarter(k)),
                           RMul(RSub(At(ys, i), OrZero(y)), SinQuarter(k))))]),
      Arr([i \in 1..Len(ys) |->
              RAdd(y, RAdd(RMul(RSub(At(xs, i), OrZero(x)), SinQuarter(k)),
                           RMul(RSub(ys[i], OrZero(y)), CosQuarter(k))))])>>

\* p.rotate(x, y, angle): _X and _Y are new arrays
RotateOf(p) ==
    /\ calls < ObjMaxOps
    /\ \E o \in {<<I(0), I(0)>>, <<I(1), NaN>>}, k \in RotateTurns :
          /\ heap' = heap \o Rotated(heap[polys[p].x], heap[polys[p].y], o[1], o[2], k)
          /\ Done("rotateDone", <<p, k>>, 0)
    /\ polys' = [polys EXCEPT ![p] = [x |-> Len(heap) + 1, y |-> Len(heap) + 2]]

\* the arrays moveBy and moveAlong assign to _X and _Y for the steps dx and dy
Moved(xs, ys, dx, dy) ==
    <<Arr([i \in 1..Len(xs) |-> RAdd(xs[i], dx)]), Arr([i \in 1..Len(ys) |-> RAdd(ys[i], dy)])>>

\* p.moveBy(dx, dy): _X and _Y are new arrays
MoveByOf(p) ==
    /\ calls < ObjMaxOps
    /\ \E dx \in MoveNumbers, dy \in MoveNumbers \ {NaN} :
          heap' = heap \o Moved(heap[polys[p].x], heap[polys[p].y], OrZero(dx), OrZero(dy))
    /\ polys' = [polys EXCEPT ![p] = [x |-> Len(heap) + 1, y |-> Len(heap) + 2]]
    /\ Done("moveByDone", <<p>>, 0)

\* Math.cos of the angle 0 or of one that is not finite
CosOf(angle) == IF IsFinite(angle) THEN I(1) ELSE NaN

\* Math.sin of the angle 0 or of one that is not finite
SinOf(angle) == IF IsFinite(angle) THEN I(0) ELSE NaN

\* p.moveAlong(angle, distance) for the angle 0 or one that is not finite
MoveAlongOf(p) ==
    /\ calls < ObjMaxOps
    /\ \E angle \in {I(0), NaN, <<1, 0>>}, distance \in MoveNumbers \ {NaN} :
          heap' = heap \o Moved(heap[polys[p].x], heap[polys[p].y],
                                RMul(OrZero(distance), SinOf(OrZero(angle))),
                                RMul(OrZero(distance), CosOf(OrZero(angle))))
    /\ polys' = [polys EXCEPT ![p] = [x |-> Len(heap) + 1, y |-> Len(heap) + 2]]
    /\ Done("moveAlongDone", <<p>>, 0)

\* p.remove(indexes) with an array of indexes
RemoveArrayOf(p) ==
    /\ calls < ObjMaxOps
    /\ \E indexes \in {<<0, 1>>, <<1, 0>>} :
          heap' = RemoveIndexes(heap, polys[p], indexes)
    /\ UNCHANGED polys
    /\ Done("removeDone", <<p>>, 0)

\* two instances: one of type 'array' constructed from the caller's arrays,
\* which the calls are made on, and one of type 'point' that is handed to
\* append and insertPolygon
InitMutate ==
    /\ \E pts \in CallerPolygons :
          \E R \in {ArrayPolygon(<<PointsX(pts), PointsY(pts)>>, 1, 2)} :
              \E Q \in {PointPolygon(R.heap, NumberPoints(<<<<0, 0>>, <<2, 2>>>>))} :
                  heap = Q.heap /\ polys = <<R.poly, Q.poly>>
    /\ pc = "ready"
    /\ ret = 0
    /\ arg = <<>>
    /\ X = <<>>
    /\ Y = <<>>
    /\ hull = 0
    /\ indexStart = 0
    /\ xoX = <<>>
    /\ xoY = <<>>
    /\ calls = 0

NextMutate ==
    \/ RemoveOf(1)
    \/ RemoveArrayOf(1)
    \/ SpliceOf(1)
    \/ PushOf(1)
    \/ UnshiftOf(1)
    \/ ShiftOf(1)
    \/ PopOf(1)
    \/ ChangeOf(1)
    \/ SwapOf(1)
    \/ \E q \in Instances : AppendOf(1, q)
    \/ \E q \in Instances : InsertPolygonOf(1, q)
    \/ InsertVertexOf(1)
    \/ ReverseOf(1)
    \/ SortCWOf(1)
    \/ SliceBoxOf(1)
    \/ SliceCircleOf(1)
    \/ SimplifyOf(1)
    \/ RotateOf(1)
    \/ MoveByOf(1)
    \/ MoveAlongOf(1)

SpecMutate == InitMutate /\ [][NextMutate]_vars

\* C30: after a construction from well-formed input and any sequence of the
\* mutating operations, the calls that throw on an argument that is not finite
\* included, the arrays _X and _Y of the polygon have the same length.
C30_CoordinateArraysSameLength ==
    \A p \in Instances : Len(heap[polys[p].x]) = Len(heap[polys[p].y])

\* a call has thrown on an argument that is not finite after a call that made
\* the triangle a polygon of four vertices
C30_Witness ==
    /\ pc \in {"pushThrew", "unshiftThrew", "changeThrew", "insertVertexThrew"}
    /\ calls = ObjMaxOps
    /\ Size(1) = 4
    /\ Len(heap[polys[1].y]) = 4

====
